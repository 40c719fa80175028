-------------------------- MODULE CommentComposer --------------------------
(* The form that writes a comment with mentions: frontend features/        *)
(* comments/components/mention-comment-composer.tsx and                    *)
(* model/comment-draft.ts, and what backend comments/comment-contract.ts   *)
(* accepts. Offsets count from 0, as in the code.                          *)
(*                                                                         *)
(* Three characters stand for all: the at sign, a blank, a letter. Members *)
(* and their mention labels stay the same, and a search is one step. The   *)
(* limits on characters and mentions are out of reach. Two mentions of the *)
(* same user at the same place count as one.                               *)
EXTENDS FiniteSets, FiniteSetsExt, Integers, Sequences, SequencesExt

CONSTANTS Member, Label,  \* Label[u]: what follows the at sign in a mention of u
          MaxBody,        \* bound: characters of the draft
          None

Char == {"@", " ", "x"}

VARIABLES view,  \* the draft, the query at the caret and its candidates
          net    \* the search and the post that are under way

vars == <<view, net>>

Init ==
  /\ view = [body |-> <<>>, mentions |-> {}, query |-> None, candidates |-> {},
             composing |-> FALSE, pending |-> FALSE]
  /\ net = [search |-> None, post |-> None]

-----------------------------------------------------------------------------
(* comment-draft.ts                                                        *)

Slice(s, from, to) == SubSeq(s, from + 1, to)
Text(s, m) == Slice(s, m.start, m.end)
Moved(m, delta) == [m EXCEPT !.start = @ + delta, !.end = @ + delta]

\* The longest common end of two texts that leaves their common beginning alone.
CommonSuffix(s, t, prefix) ==
  Max({n \in 0..Min({Len(s), Len(t)}) - prefix :
         Slice(s, Len(s) - n, Len(s)) = Slice(t, Len(t) - n, Len(t))})

\* Mentions before the edit stay, those after it move, and those it touches are dropped.
ReconcileMentions(old, new, mentions) ==
  LET prefix == Len(LongestCommonPrefix({old, new}))
      suffix == CommonSuffix(old, new, prefix)
      delta == Len(new) - Len(old)
      before == {m \in mentions : m.end <= prefix}
      after == {m \in mentions \ before : m.start >= Len(old) - suffix}
  IN {m \in before : Text(new, m) = Text(old, m)}
       \cup {n \in {Moved(m, delta) : m \in after} : Text(new, n) = Text(old, Moved(n, -delta))}

Blank(s) == \A i \in 1..Len(s) : s[i] = " "
TrimStart(s) == Slice(s, Max({n \in 0..Len(s) : Blank(Slice(s, 0, n))}), Len(s))
TrimEnd(s) == Slice(s, 0, Min({n \in 0..Len(s) : Blank(Slice(s, n, Len(s)))}))

\* canonicalizeCommentDraft
Canonical(body, mentions) ==
  LET start == TrimStart(body)
      both == TrimEnd(start)
  IN [body |-> both,
      mentions |-> ReconcileMentions(start, both, ReconcileMentions(body, start, mentions))]

\* findActiveMentionQuery: from the last at sign before the caret, when it may begin a mention.
ActiveQuery(body, caret) ==
  LET signs == {i \in 0..caret - 1 : body[i + 1] = "@"}
      start == Max(signs)
      opens == start = 0 \/ body[start] = " "
      text == Slice(body, start + 1, caret)
  IN IF signs = {} THEN None
     ELSE IF opens /\ text # <<>> /\ Head(text) # " " THEN [start |-> start, end |-> caret]
     ELSE None

-----------------------------------------------------------------------------
(* The server, which checks the canonical draft again: comment-contract.ts *)

Reads(body, m) == Text(body, m) = <<"@">> \o Label[m.user]

IsCanonical(body) == body # <<>> /\ TrimEnd(TrimStart(body)) = body
HasBoundary(body, start) == (IF start = 0 THEN " " ELSE body[start]) = " "
HasValidMentions(body, mentions) ==
  /\ \A m \in mentions :
       /\ m.start \in 0..m.end - 1 /\ m.end <= Len(body)
       /\ HasBoundary(body, m.start) /\ Reads(body, m)
  /\ \A m, n \in mentions : m = n \/ m.end <= n.start \/ n.end <= m.start
Accepted(post) == IsCanonical(post.body) /\ HasValidMentions(post.body, post.mentions)

-----------------------------------------------------------------------------
(* The form.                                                               *)

\* The query changes, and with it the search: the one under way is forgotten.
SetQuery(v, q) ==
  /\ view' = [v EXCEPT !.query = q, !.candidates = IF q = None THEN {} ELSE @]
  /\ net' = [net EXCEPT !.search =
                IF q = None THEN None ELSE Slice(v.body, q.start + 1, q.end)]

\* refreshActiveQuery: not where a mention begins.
Refresh(v, caret) ==
  IF v.composing THEN view' = v /\ UNCHANGED net
  ELSE LET q == ActiveQuery(v.body, caret) IN
       SetQuery(v, IF q # None /\ \E m \in v.mentions : m.start = q.start THEN None ELSE q)

\* A character is typed, deleted or replaced.
Edit ==
  /\ ~view.pending
  /\ \E from \in 0..Len(view.body), text \in {<<>>} \cup {<<c>> : c \in Char} :
       \E to \in {from, from + 1} \cap 0..Len(view.body) :
         LET body == Slice(view.body, 0, from) \o text \o Slice(view.body, to, Len(view.body))
         IN /\ body # view.body /\ Len(body) <= MaxBody
            /\ Refresh([view EXCEPT !.body = body,
                          !.mentions = ReconcileMentions(view.body, body, @)],
                       from + Len(text))

Click ==
  /\ ~view.pending
  /\ \E caret \in 0..Len(view.body) : Refresh(view, caret)

\* Escape in the text, and the focus leaving the form.
MenuOpen == view.query # None
Dismiss == MenuOpen /\ SetQuery(view, None)

StartComposition ==
  /\ ~view.pending /\ ~view.composing
  /\ SetQuery([view EXCEPT !.composing = TRUE], None)
EndComposition ==
  /\ view.composing
  /\ \E caret \in 0..Len(view.body) :
       SetQuery([view EXCEPT !.composing = FALSE], ActiveQuery(view.body, caret))

\* The members whose name contains the query, trimmed; or the search fails.
Matching(text) ==
  {u \in Member : \E from, to \in 0..Len(Label[u]) : Slice(Label[u], from, to) = TrimEnd(text)}
SearchArrives ==
  /\ net.search # None
  /\ \E found \in {Matching(net.search), {}} : view' = [view EXCEPT !.candidates = found]
  /\ net' = [net EXCEPT !.search = None]

\* "Retry" in the menu, after a search that failed.
RetrySearch ==
  /\ MenuOpen /\ view.candidates = {} /\ net.search = None
  /\ SetQuery(view, view.query)

\* The draft with the query replaced by a mention of the user.
Inserted(u) ==
  LET text == <<"@">> \o Label[u]
      rest == Slice(view.body, view.query.end, Len(view.body))
      spacing == IF rest # <<>> /\ Head(rest) = " " THEN <<>> ELSE <<" ">>
  IN [body |-> Slice(view.body, 0, view.query.start) \o text \o spacing \o rest,
      mention |-> [user |-> u, start |-> view.query.start,
                   end |-> view.query.start + Len(text)]]

\* Mutant: the other mentions are left where they were.
SelectCandidateUnmoved ==
  /\ MenuOpen
  /\ \E u \in view.candidates :
       LET new == Inserted(u) IN
       /\ Len(new.body) <= MaxBody
       /\ SetQuery([view EXCEPT !.body = new.body, !.mentions = @ \cup {new.mention}], None)

\* Enter, Tab or a click. The candidates may still be those of an earlier query.
SelectCandidate ==
  /\ MenuOpen
  /\ \E u \in view.candidates :
       LET new == Inserted(u) IN
       /\ Len(new.body) <= MaxBody
       /\ SetQuery([view EXCEPT !.body = new.body,
                      !.mentions = ReconcileMentions(view.body, new.body, @) \cup {new.mention}],
                   None)

\* handleSubmit, and its answer: the request may fail whatever it posts.
PostOffered == ~view.pending
Submit ==
  /\ PostOffered /\ Canonical(view.body, view.mentions).body # <<>>
  /\ view' = [view EXCEPT !.pending = TRUE]
  /\ net' = [net EXCEPT !.post = Canonical(view.body, view.mentions)]
PostArrives ==
  /\ net.post # None
  /\ \/ /\ Accepted(net.post)
        /\ view' = [view EXCEPT !.body = <<>>, !.mentions = {}, !.query = None,
                                !.candidates = {}, !.pending = FALSE]
        /\ net' = [search |-> None, post |-> None]
     \/ view' = [view EXCEPT !.pending = FALSE] /\ net' = [net EXCEPT !.post = None]

Next ==
  \/ Edit \/ Click \/ Dismiss \/ StartComposition \/ EndComposition
  \/ SearchArrives \/ RetrySearch \/ SelectCandidate \/ Submit \/ PostArrives

Spec == Init /\ [][Next]_vars

-----------------------------------------------------------------------------
(* Properties                                                              *)

\* However the draft was edited, trimmed and completed, each range of the draft, and of what is
\* posted, is the text of the member it was selected for (docs/api-design/comments.md:32-33).
MentionsReadLabels ==
  /\ \A m \in view.mentions : Reads(view.body, m)
  /\ net.post # None => \A m \in net.post.mentions : Reads(net.post.body, m)

\* docs/api-design/comments.md:32: "Each range is a non-overlapping UTF-16 occurrence".
MentionsDisjoint ==
  \A m, n \in view.mentions : m = n \/ m.end <= n.start \/ n.end <= m.start
=============================================================================
