------------------------------ MODULE Screens ------------------------------
(***************************************************************************)
(* The browser's state machines side by side: a behaviour is one of        *)
(* BrowserSession, or of one of the components of the user interface,      *)
(* which share the variables server, view, net and past.                   *)
(***************************************************************************)
EXTENDS BrowserSession, Sequences

CONSTANTS PageSize, Limit,   \* items of a numbered page, and of a page with a cursor
          Members, Query, Found,             \* AssigneePicker
          Member, Label, MaxBody,            \* CommentComposer
          Task, TaskStatus, Filter,          \* TaskSection
          Workspace, Project,                \* WorkspaceHome, ProjectSection
          MaxNotifications, MaxComments, MaxRows, MaxFiles,   \* bounds on what is ever created
          MaxLists, MaxEvents, MaxTroubles   \* bounds on requests in flight and what others do

VARIABLES screen, server, view, net, past

sessionVars == vars
screenVars == <<server, view, net, past>>
allVars == <<screen, sessionVars, screenVars>>

NC == INSTANCE NotificationCenter WITH MaxCreated <- MaxNotifications
TS == INSTANCE TaskSection WITH Status <- TaskStatus
AS == INSTANCE AttachmentSection
CC == INSTANCE CommentComposer
CT == INSTANCE CommentThread
WH == INSTANCE WorkspaceHome
PS == INSTANCE ProjectSection
AP == INSTANCE AssigneePicker

ASSUME SizesAssumption ==
  /\ PageSize \in Nat \ {0} /\ Limit \in Nat \ {0} /\ MaxNotifications \in Nat
  /\ MaxComments \in Nat /\ MaxRows \in Nat /\ MaxFiles \in Nat
  /\ MaxLists \in Nat \ {0} /\ IsFiniteSet(Task)
  /\ IsFiniteSet(Workspace) /\ IsFiniteSet(Project)
ASSUME SearchAssumption == "" \in Query /\ \A q \in Query : Found[q] \subseteq Found[""]
ASSUME LabelAssumption == \A u \in Member : Label[u] \in Seq(CC!Char)
ASSUME StatusAssumption == {"BACKLOG", "CANCELED"} \subseteq TaskStatus
ASSUME NoneAssumption ==
  None \notin AP!Search \cup NC!ListRequest \cup NC!Command \cup NC!Listing \cup NC!Outcome
              \cup {NC!Failure} \cup WH!ListRequest \cup PS!ListRequest
              \cup CT!ListRequest \cup CT!Posting \cup [answer : {None}]
              \cup AS!ListRequest \cup AS!UploadRequest \cup AS!RowRequest \cup AS!Attempt
              \cup TS!ListRequest \cup TS!PatchRequest \cup TS!SaveRequest

Unused == server = None /\ past = None

ScreensInit ==
    \/ screen = "session" /\ Init /\ Unused /\ view = None /\ net = None
    \/ /\ alive = {} /\ Init
       /\ \/ screen = "notifications" /\ NC!Init
          \/ screen = "tasks" /\ TS!Init
          \/ screen = "attachments" /\ AS!Init
          \/ screen = "composer" /\ CC!Init /\ Unused
          \/ screen = "thread" /\ CT!Init
          \/ screen = "workspaces" /\ WH!Init
          \/ screen = "projects" /\ PS!Init
          \/ screen = "assignee" /\ AP!Init /\ Unused

ScreensNext ==
    /\ UNCHANGED screen
    /\ \/ screen = "session" /\ Next /\ UNCHANGED screenVars
       \/ /\ UNCHANGED sessionVars
          /\ \/ screen = "notifications" /\ NC!Next
             \/ screen = "tasks" /\ TS!Next
             \/ screen = "attachments" /\ AS!Next
             \/ screen = "composer" /\ CC!Next /\ UNCHANGED <<server, past>>
             \/ screen = "thread" /\ CT!Next
             \/ screen = "workspaces" /\ WH!Next
             \/ screen = "projects" /\ PS!Next
             \/ screen = "assignee" /\ AP!Next /\ UNCHANGED <<server, past>>

ScreensSpec == ScreensInit /\ [][ScreensNext]_allVars

-----------------------------------------------------------------------------
(* The properties of the modules, each in its own behaviours.              *)

\* A loading screen, a pending page, a disabled button always waits for an answer that ends it, in
\* every section and in the guarded pages of auth-guard.tsx.
NoSpinnerLeft ==
    /\ screen = "session" => SpinnersAnswered
    /\ screen = "notifications" => NC!SpinnersAnswered
    /\ screen = "tasks" => TS!SpinnersAnswered
    /\ screen = "attachments" => AS!SpinnersAnswered
    /\ screen = "thread" => CT!SpinnersAnswered
    /\ screen = "workspaces" => WH!SpinnersAnswered
    /\ screen = "projects" => PS!SpinnersAnswered
    /\ screen = "assignee" => AP!SpinnersAnswered

\* A list requested before a workspace or project was created does not take it off the screen.
CreatedNotReplaced ==
    /\ screen = "workspaces" => WH!CreatedNotReplaced
    /\ screen = "projects" => PS!CreatedNotReplaced

\* NotificationCenter: what a command made read is not shown as unread by an older answer.
ReadStateKept == screen = "notifications" => NC!ReadStateKept
\* AttachmentSection: a file chosen once is stored once at most, whatever is canceled and retried.
OneRowPerFile == screen = "attachments" => AS!OneRowPerFile
\* CommentComposer: each range of a draft is the text of the member it was selected for.
MentionsReadLabels == screen = "composer" => CC!MentionsReadLabels
\* CommentThread: no comment is missing between the oldest shown and the newest of the first load.
ThreadUnbroken == screen = "thread" => CT!ThreadUnbroken
\* AssigneePicker: a member that can be picked matches the text in the field.
OfferedMatch == screen = "assignee" => AP!OfferedMatch
=============================================================================
