---------------------------- MODULE UploadStream ----------------------------
(***************************************************************************)
(* One upload request on its way through the API: parseAttachmentUpload    *)
(* reads the multipart body, AttachmentsService.upload checks the request, *)
(* pipes the file through AttachmentInspectionTransform into the object    *)
(* storage, and waits for both the storage and the parser.  The parser,    *)
(* the stream, the storage client and the handler run concurrently, and    *)
(* the client may send anything, stop or disappear at any time.            *)
(*                                                                         *)
(* What the handler does to the rows is AttachmentLifecycle's part.        *)
(***************************************************************************)
EXTENDS Naturals

CONSTANTS
    MaxBlocks,  \* MAX_ATTACHMENT_BYTES, in blocks
    Signature   \* the blocks that hold the magic bytes

ASSUME BlocksAssumption == MaxBlocks \in Nat /\ Signature \in 1..MaxBlocks

VARIABLES
    form,   \* the parser
    file,   \* the stream of the file part and the inspection it is piped into
    work    \* the handler and the storage client

uploadVars == <<form, file, work>>

(* "guard": the parser does not exist yet; "unheard": nor will it hear that *)
(* its client is gone.  "extra": the body holds anything beside one part   *)
(* named "file".                                                           *)
Form == [at : {"guard", "unheard", "part", "file", "end", "closed"}, seen : BOOLEAN, extra : BOOLEAN,
         ready : {"pending", "file", "rejected"}, completed : {"pending", "ok", "failed"}]

(* "good": the content is what its declared type says; "fed" blocks came   *)
(* from the client, "count" have passed the inspection.                    *)
File == [good : BOOLEAN, fed : 0..MaxBlocks + 1, ended : BOOLEAN, destroyed : BOOLEAN,
         to : {"paused", "nowhere", "inspection"}, count : 0..MaxBlocks + 1,
         inspection : {"open", "passed", "failed"}]

(* A storage client whose signal was aborted before it started is "deaf":  *)
(* it waits for its body.                                                  *)
Work == [pc : {"parsing", "checking", "transfer", "cleanup", "done"}, declared : 1..MaxBlocks,
         storage : {"idle", "sending", "deaf", "stored", "failed"}, object : BOOLEAN,
         answer : {"none", "created", "replayed", "declined", "rejected", "unavailable"}]

(* requireUploadLength has bounded the declared size.                      *)
UploadInit ==
    /\ form = [at |-> "guard", seen |-> FALSE, extra |-> FALSE,
               ready |-> "pending", completed |-> "pending"]
    /\ \E good \in BOOLEAN :
          file = [good |-> good, fed |-> 0, ended |-> FALSE, destroyed |-> FALSE,
                  to |-> "paused", count |-> 0, inspection |-> "open"]
    /\ \E n \in 1..MaxBlocks :
          work = [pc |-> "parsing", declared |-> n, storage |-> "idle",
                  object |-> FALSE, answer |-> "none"]

-----------------------------------------------------------------------------
(* The parser.                                                             *)

(* AuthGuard awaits the session before the handler creates the parser and  *)
(* listens to the request.                                                 *)
Listen ==
    /\ form.at = "guard"
    /\ form' = [form EXCEPT !.at = "part"]
    /\ UNCHANGED <<file, work>>

(* A client that leaves before: its "aborted" finds no listener, and what   *)
(* is then piped into the parser neither flows nor ends.                   *)
LeaveUnheard ==
    /\ form.at = "guard"
    /\ form' = [form EXCEPT !.at = "unheard"]
    /\ UNCHANGED <<file, work>>

(* fail() settles the promises once, and destroys the file's stream with   *)
(* an error; an inspection that is already attached fails with it.         *)
Failed(f) ==
    IF f.completed # "pending" THEN f
    ELSE [f EXCEPT !.completed = "failed", !.ready = IF f.seen THEN @ ELSE "rejected"]

Destroyed(f, s) ==
    IF f.completed = "pending" /\ f.seen
    THEN [s EXCEPT !.destroyed = TRUE,
                   !.inspection = IF s.to = "inspection" /\ @ = "open" THEN "failed" ELSE @]
    ELSE s

Fail(f) == form' = Failed(f) /\ file' = Destroyed(f, file)

(* The first part named "file" becomes the stream; the promise "ready" may *)
(* have been rejected before.  A part of another name, or one more, fails. *)
FilePart ==
    /\ form.at = "part" /\ ~form.seen
    /\ form' = [form EXCEPT !.at = "file", !.seen = TRUE,
                            !.ready = IF @ = "pending" THEN "file" ELSE @]
    /\ UNCHANGED <<file, work>>

OtherPart ==
    /\ form.at = "part"
    /\ Fail([form EXCEPT !.extra = TRUE])
    /\ UNCHANGED work

(* The stream is cut off one byte beyond the limit.                        *)
Block ==
    /\ form.at = "file" /\ ~file.destroyed /\ file.fed <= MaxBlocks
    /\ LET fed == [file EXCEPT !.fed = @ + 1] IN
       IF fed.fed > MaxBlocks
       THEN form' = Failed(form) /\ file' = Destroyed(form, fed)
       ELSE file' = fed /\ UNCHANGED form
    /\ UNCHANGED work

EndFile ==
    /\ form.at = "file"
    /\ form' = [form EXCEPT !.at = "part"]
    /\ file' = [file EXCEPT !.ended = TRUE]
    /\ UNCHANGED work

EndBody ==
    /\ form.at = "part"
    /\ form' = [form EXCEPT !.at = "end"]
    /\ UNCHANGED <<file, work>>

(* The parser closes when the file has been consumed, if there is one.     *)
Consumed ==
    \/ file.destroyed
    \/ file.ended /\ (file.to = "inspection" => file.count = file.fed) /\ file.to # "paused"

Close ==
    /\ form.at = "end" /\ (form.seen => Consumed)
    /\ LET closed == [form EXCEPT !.at = "closed"] IN
       IF form.seen
       THEN /\ form' = [closed EXCEPT !.completed = IF @ = "pending" THEN "ok" ELSE @]
            /\ UNCHANGED file
       ELSE Fail(closed)
    /\ UNCHANGED work

(* A malformed or truncated body, or a client that is gone.                *)
BodyBreaksOff ==
    /\ form.at \in {"part", "file"}
    /\ Fail([form EXCEPT !.at = "closed", !.extra = TRUE])
    /\ UNCHANGED work

-----------------------------------------------------------------------------
(* The handler.                                                            *)

AnswerUpload(a) == work' = [work EXCEPT !.pc = "done", !.answer = a]

Parsed ==
    /\ work.pc = "parsing" /\ form.ready # "pending"
    /\ IF form.ready = "rejected" THEN AnswerUpload("rejected")
       ELSE work' = [work EXCEPT !.pc = "checking"]
    /\ UNCHANGED <<form, file>>

(* A bad name or type, no permission, a limit, a conflict, or a replay: the*)
(* rest of the body is read and dropped.                                   *)
Decline ==
    /\ work.pc = "checking"
    /\ file' = [file EXCEPT !.to = "nowhere"]
    /\ \E a \in {"declined", "replayed"} : AnswerUpload(a)
    /\ UNCHANGED form

(* The error of a stream that was destroyed before is not heard any more.  *)
Transfer ==
    /\ work.pc = "checking"
    /\ file' = [file EXCEPT !.to = "inspection"]
    /\ work' = [work EXCEPT !.pc = "transfer",
                            !.storage = IF form.completed = "failed" THEN "deaf" ELSE "sending"]
    /\ UNCHANGED form

(* Mutant: the handler does not wait for the parser to finish.             *)
FinishEarly ==
    /\ work.pc = "transfer" /\ work.storage = "stored"
    /\ AnswerUpload("created")
    /\ UNCHANGED <<form, file>>

(* Promise.all: the storage has the object and the parser is through.      *)
Finish ==
    /\ work.pc = "transfer" /\ work.storage = "stored" /\ form.completed = "ok"
    /\ \/ AnswerUpload("created")
       \/ work' = [work EXCEPT !.pc = "cleanup", !.answer = "unavailable"]
    /\ UNCHANGED <<form, file>>

(* Mutant: only the storage's failure ends the wait.                       *)
GiveUpLate ==
    /\ work.pc = "transfer" /\ work.storage = "failed"
    /\ work' = [work EXCEPT !.pc = "cleanup", !.answer = "unavailable"]
    /\ UNCHANGED <<form, file>>

(* Either failure ends the wait and aborts the storage client.  The error  *)
(* that came first is translated: 413 or 422 for the client's, else 503.   *)
GiveUp ==
    /\ work.pc = "transfer"
    /\ \E a \in {"rejected", "unavailable"} :
          /\ IF a = "rejected"
             THEN \/ form.completed = "failed"
                  \/ work.storage = "failed" /\ file.inspection = "failed"
             ELSE work.storage = "failed"
          /\ work' = [work EXCEPT !.pc = "cleanup", !.answer = a,
                                  !.storage = IF @ = "stored" THEN @ ELSE "failed"]
    /\ UNCHANGED <<form, file>>

(* The object is deleted and looked for, and the request is answered.      *)
Cleanup ==
    /\ work.pc = "cleanup"
    /\ \E left \in {FALSE, work.object} :
          work' = [work EXCEPT !.pc = "done", !.object = left]
    /\ UNCHANGED <<form, file>>

-----------------------------------------------------------------------------
(* The inspection and the storage client.                                  *)

Piped == file.to = "inspection" /\ file.inspection = "open" /\ ~file.destroyed

Inspect ==
    /\ Piped /\ file.count < file.fed
    /\ LET n == file.count + 1 IN
       file' = [file EXCEPT !.count = n,
                            !.inspection = IF \/ n > MaxBlocks \/ n > work.declared
                                              \/ (n = Signature /\ ~file.good)
                                           THEN "failed" ELSE @]
    /\ UNCHANGED <<form, work>>

Flush ==
    /\ Piped /\ file.ended /\ file.count = file.fed
    /\ file' = [file EXCEPT !.inspection = IF file.count = work.declared /\ file.good
                                           THEN "passed" ELSE "failed"]
    /\ UNCHANGED <<form, work>>

Stored ==
    /\ work.storage = "sending" /\ file.inspection = "passed"
    /\ work' = [work EXCEPT !.storage = "stored", !.object = TRUE]
    /\ UNCHANGED <<form, file>>

(* The body fails, or the signal aborts a transfer that is under way.      *)
Stopped ==
    /\ work.storage = "sending"
    /\ file.inspection = "failed" \/ form.completed = "failed"
    /\ work' = [work EXCEPT !.storage = "failed"]
    /\ UNCHANGED <<form, file>>

(* The storage fails by itself; it may hold the object all the same.       *)
StorageFails ==
    /\ work.storage \in {"sending", "deaf"}
    /\ \E held \in {FALSE, file.inspection = "passed"} :
          work' = [work EXCEPT !.storage = "failed", !.object = held]
    /\ UNCHANGED <<form, file>>

-----------------------------------------------------------------------------
Sends == Listen \/ LeaveUnheard \/ FilePart \/ OtherPart \/ Block \/ EndFile \/ EndBody \/ BodyBreaksOff
Handler == Parsed \/ Decline \/ Transfer \/ Finish \/ GiveUp \/ Cleanup

UploadNext == Sends \/ Close \/ Handler \/ Inspect \/ Flush \/ Stored \/ Stopped \/ StorageFails

(* No step is taken twice, so it is enough that one is taken as long as one*)
(* can be.  The guard's database call is answered.  A client, or its       *)
(* connection, comes to an end; but nothing forces it to send more, or the *)
(* storage to fail.                                                        *)
Progress == Listen \/ EndFile \/ EndBody \/ BodyBreaksOff \/ Close \/ Handler \/ Inspect \/ Flush \/ Stored \/ Stopped

UploadSpec == UploadInit /\ [][UploadNext]_uploadVars /\ WF_uploadVars(Progress)

-----------------------------------------------------------------------------
UploadTypeOK == form \in Form /\ file \in File /\ work \in Work

(* The body is one file, of the declared size and type.                    *)
WholeBody ==
    /\ form.seen /\ ~form.extra /\ file.ended
    /\ file.good /\ file.fed = work.declared

(* What is made available is the whole, inspected file, with nothing beside*)
(* it in a body that was read to its end; and only a body that is not that *)
(* is rejected as too large or not acceptable.                             *)
UploadWhole ==
    /\ work.answer = "created" => WholeBody /\ form.at = "closed" /\ work.object
    /\ work.answer = "rejected" => ~WholeBody

(* Every request is answered, whenever its client stops sending: also when *)
(* the stream is destroyed before it is piped, with nobody listening.  The *)
(* exception is a client that has left before the parser listens: "ready"  *)
(* is then never settled, and the handler stays where it has reserved      *)
(* nothing yet.                                                            *)
RequestAnswered == <>(work.pc = "done" \/ form.at = "unheard")
=============================================================================
