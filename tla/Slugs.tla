-------------------------------- MODULE Slugs --------------------------------
(***************************************************************************)
(* The slugs of workspaces: baseSlug, appendSlugSuffix and the candidates  *)
(* that WorkspacesService.create tries one after the other against the     *)
(* unique constraint on Workspace.slug, compared with what a slug is meant *)
(* to be.  A character is a letter or digit, or "-" for anything else.     *)
(***************************************************************************)
EXTENDS Naturals, SequencesExt

CONSTANTS
    Letter,     \* letters and digits
    MaxSlug,    \* SLUG_BASE_MAX_LENGTH
    Fallback,   \* "workspace"
    Suffix,     \* the numbers and random digits, as sequences of letters
    MaxName     \* the longest name that is looked at

LOCAL Dash == "-"
Name == BoundedSeq(Letter \cup {Dash}, MaxName)

(* What a slug is: words joined by single hyphens, short enough.           *)
IsSlug(s) ==
    /\ s # <<>> /\ Len(s) <= MaxSlug
    /\ s[1] # Dash /\ s[Len(s)] # Dash
    /\ \A i \in 1..Len(s) - 1 : s[i] = Dash => s[i + 1] # Dash

(* Runs of other characters become one hyphen.                             *)
Collapsed(name) ==
    FoldLeft(LAMBDA s, c : IF c = Dash /\ s # <<>> /\ Last(s) = Dash THEN s ELSE Append(s, c),
             <<>>, name)

(* Without the hyphens at its end, or at its start.                        *)
TrimEnd(s) ==
    SubSeq(s, 1, SelectLastInSeq(s, LAMBDA c : c # Dash))
TrimStart(s) ==
    SubSeq(s, SelectInSeq(s, LAMBDA c : c # Dash), Len(s))

Cut(s, n) == TrimEnd(SubSeq(s, 1, IF n < Len(s) THEN n ELSE Len(s)))
Otherwise(s) == IF s = <<>> THEN Fallback ELSE s

baseSlug(name) ==
    LET s == TrimEnd(Collapsed(name)) IN
    Otherwise(IF s = <<>> THEN s ELSE Cut(TrimStart(s), MaxSlug))

appendSlugSuffix(base, suffix) ==
    Otherwise(Cut(base, MaxSlug - Len(suffix) - 1)) \o <<Dash>> \o suffix

(* Every candidate of every name is a slug.                                *)
ASSUME CandidatesAreSlugs ==
    \A name \in Name :
        LET base == baseSlug(name) IN
        IsSlug(base) /\ \A suffix \in Suffix : IsSlug(appendSlugSuffix(base, suffix))

(* A name that is a slug already keeps its form, and names that differ only*)
(* in what surrounds their words share it.                                 *)
ASSUME SlugsAreStable ==
    \A name \in Name :
        /\ IsSlug(name) => baseSlug(name) = name
        /\ baseSlug(<<Dash>> \o name \o <<Dash>>) = baseSlug(name)

(* Two suffixes of one length never give the same candidate, whatever the  *)
(* base was cut to: the random candidates differ.                          *)
ASSUME CandidatesDiffer ==
    \A name \in Name : \A s, r \in Suffix :
        s # r => appendSlugSuffix(baseSlug(name), s) # appendSlugSuffix(baseSlug(name), r)
=============================================================================
