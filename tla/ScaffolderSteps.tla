---------------------------- MODULE ScaffolderSteps ----------------------------
(***************************************************************************)
(* The scaffolder actions for AWS: a step of a template that posts an      *)
(* event, creates a resource through Cloud Control, publishes the workspace*)
(* as a CodeCommit repository or copies it to a bucket.                    *)
(*                                                                         *)
(* A behaviour is one step, attempted again after a failure or a crash of  *)
(* the worker, with the input and the workspace it had.  Every call may    *)
(* fail without effect, or take effect and fail all the same, because its  *)
(* answer is lost; what an attempt has left in AWS meets the next attempt. *)
(***************************************************************************)
EXTENDS Naturals, FiniteSets, Sequences

CONSTANTS
  Workspace,    \* its entries: [name, type, hidden, matches, inside], matches the path
                \* input, inside the sourcePath
  MaxAttempts,  \* bound on the attempts of the step
  None          \* undefined, absent

ASSUME WorkspaceAssumption ==
  /\ MaxAttempts \in Nat \ {0} /\ IsFiniteSet(Workspace)
  /\ \A f \in Workspace : f.type \in {"file", "link", "directory"} /\ {f.hidden, f.matches, f.inside} \subseteq BOOLEAN

Repositories == [by : 0..MaxAttempts, files : SUBSET Workspace]
ASSUME NoneAssumption == None \notin Repositories

VARIABLES
  input,     \* [action, detail, token, wait, source]: which inputs are given
  attempt,   \* the attempt under way, or the last one
  pc,        \* where its handler is
  posted,    \* the attempts whose event the bus has taken
  refused,   \* those whose entry was refused, in an answer that is no error
  requests,  \* Cloud Control's requests: [token, state], by request token
  mine,      \* the request token this attempt was given
  repo,      \* None, or [by, files]: the repository of that name
  objects,   \* the files in the bucket
  puts,      \* of a copy, the uploads not yet answered
  output     \* what the step has output

awsVars == <<posted, refused, requests, repo, objects>>
stepVars == <<input, attempt, pc, mine, puts, output, awsVars>>

Inputs == [action : {"event", "create", "publish", "cp"}, detail : BOOLEAN, token : BOOLEAN,
           wait : BOOLEAN, source : BOOLEAN]
Over == {"done", "failed"}

Handler(p) == pc' = p /\ UNCHANGED <<input, attempt>>

-----------------------------------------------------------------------------
(* The workspace. *)

\* readAllFiles: every entry that is not a directory, hidden ones and links too.
AllFiles == {f \in Workspace : f.type # "directory"}

\* The glob of the copy: regular files, none hidden, that match the path.
Matched == {f \in Workspace : f.type = "file" /\ f.matches /\ ~f.hidden}

-----------------------------------------------------------------------------
(* All actions: credentials of the account first. *)

CallOf(action) ==
  CASE action = "event" -> "put event"
    [] action = "create" -> "create resource"
    [] action = "publish" -> "create repository"
    [] action = "cp" -> "copy"

Begin ==
  /\ pc = "ready"
  /\ \/ Handler(CallOf(input.action))
     \/ Handler("failed")
  /\ UNCHANGED <<mine, puts, output, awsVars>>

-----------------------------------------------------------------------------
(* aws:eventbridge:event. *)

\* Either detail must be there.  A refused entry is an answer like any other: its
\* FailedEntryCount is not read.
PutEvent ==
  /\ pc = "put event"
  /\ \/ ~input.detail /\ Handler("failed") /\ UNCHANGED <<posted, refused>>
     \/ /\ input.detail
        /\ \/ Handler("failed") /\ UNCHANGED <<posted, refused>>
           \/ posted' = posted \cup {attempt} /\ pc' \in Over /\ UNCHANGED <<input, attempt, refused>>
           \/ refused' = refused \cup {attempt} /\ pc' \in Over /\ UNCHANGED <<input, attempt, posted>>
  /\ UNCHANGED <<mine, puts, output, requests, repo, objects>>

-----------------------------------------------------------------------------
(* aws:cloudcontrol:create. *)

\* Mutant: the client token is not passed on.
Untold == FALSE

\* Cloud Control answers a client token it knows with the request it made for it.
Told == input.token
Known == {i \in DOMAIN requests : Told /\ requests[i].token}

CreateResource ==
  /\ pc = "create resource"
  /\ \/ Handler("failed") /\ UNCHANGED <<requests, mine>>
     \/ /\ requests' = IF Known # {} THEN requests
                       ELSE Append(requests, [token |-> Told, state |-> "pending"])
        /\ mine' = IF Known # {} THEN CHOOSE i \in Known : TRUE ELSE Len(requests) + 1
        /\ pc' \in {IF input.wait THEN "wait" ELSE "done", "failed"}
        /\ UNCHANGED <<input, attempt>>
  /\ UNCHANGED <<puts, output, posted, refused, repo, objects>>

\* Mutant: the wait ends with any state but failure.
WaitedAnyhow ==
  /\ pc = "wait"
  /\ \/ requests[mine].state # "failed" /\ Handler("status")
     \/ Handler("failed")
  /\ UNCHANGED <<mine, puts, output, awsVars>>

\* waitUntilResourceRequestSuccess throws when the request failed and when
\* maxWaitTime is over, whatever becomes of the request.
Waited ==
  /\ pc = "wait"
  /\ \/ requests[mine].state = "success" /\ Handler("status")
     \/ Handler("failed")
  /\ UNCHANGED <<mine, puts, output, awsVars>>

ReadStatus ==
  /\ pc = "status"
  /\ \/ Handler("done") /\ output' = requests[mine]
     \/ Handler("failed") /\ output' = output
  /\ UNCHANGED <<mine, puts, awsVars>>

-----------------------------------------------------------------------------
(* aws:codecommit:publish. *)

\* Mutant: a repository that exists is used as it is.
CreateRepositoryAnyhow ==
  /\ pc = "create repository"
  /\ \/ Handler("failed") /\ repo' = repo
     \/ /\ repo' = IF repo = None THEN [by |-> attempt, files |-> {}] ELSE repo
        /\ pc' \in {"create commit", "failed"} /\ UNCHANGED <<input, attempt>>
  /\ UNCHANGED <<mine, puts, output, posted, refused, requests, objects>>

\* CreateRepository throws for a name that is taken.
CreateRepository ==
  /\ pc = "create repository"
  /\ \/ Handler("failed") /\ repo' = repo
     \/ /\ repo = None /\ repo' = [by |-> attempt, files |-> {}]
        /\ pc' \in {"create commit", "failed"} /\ UNCHANGED <<input, attempt>>
  /\ UNCHANGED <<mine, puts, output, posted, refused, requests, objects>>

\* One commit of all files of the workspace; input.source is not read.
CreateCommit ==
  /\ pc = "create commit"
  /\ \/ Handler("failed") /\ UNCHANGED <<repo, output>>
     \/ /\ AllFiles # {} /\ repo' = [repo EXCEPT !.files = @ \cup AllFiles]
        /\ \/ Handler("done") /\ output' = repo
           \/ Handler("failed") /\ output' = output
  /\ UNCHANGED <<mine, puts, posted, refused, requests, objects>>

-----------------------------------------------------------------------------
(* aws:s3:cp. *)

\* Mutant: the step does not wait for its uploads.
CopyUnwaited ==
  /\ pc = "copy" /\ puts' = Matched
  /\ Handler("done")
  /\ UNCHANGED <<mine, output, awsVars>>

\* All uploads are sent at once; no file makes no upload.
Copy ==
  /\ pc = "copy" /\ puts' = Matched
  /\ Handler(IF Matched = {} THEN "done" ELSE "upload")
  /\ UNCHANGED <<mine, output, awsVars>>

\* An upload is answered, or fails and the step with it; those sent are not taken
\* back.  The file arrives as text, whatever it was.
Upload(f) ==
  /\ f \in puts /\ puts' = puts \ {f}
  /\ \/ /\ objects' = objects \cup {f}
        /\ pc' \in {IF pc = "upload" /\ puts' = {} THEN "done" ELSE pc,
                    IF pc = "upload" THEN "failed" ELSE pc}
     \/ /\ objects' = objects
        /\ pc' = IF pc = "upload" THEN "failed" ELSE pc
  /\ UNCHANGED <<input, attempt, mine, output, posted, refused, requests, repo>>

-----------------------------------------------------------------------------
(* Around the step. *)

\* Cloud Control carries a request out or gives it up.
Progress ==
  /\ \E i \in DOMAIN requests, s \in {"success", "failed"} :
       requests[i].state = "pending" /\ requests' = [requests EXCEPT ![i].state = s]
  /\ UNCHANGED <<input, attempt, pc, mine, puts, output, posted, refused, repo, objects>>

\* The worker dies; its uploads with it.
WorkerDies ==
  /\ pc \notin Over /\ Handler("failed") /\ puts' = {}
  /\ UNCHANGED <<mine, output, awsVars>>

\* The template is run again.
Again ==
  /\ pc = "failed" /\ attempt < MaxAttempts
  /\ attempt' = attempt + 1 /\ pc' = "ready" /\ mine' = None /\ output' = None
  /\ UNCHANGED <<input, puts, awsVars>>

StepInit ==
  /\ input \in Inputs /\ attempt = 1 /\ pc = "ready"
  /\ posted = {} /\ refused = {} /\ requests = <<>> /\ mine = None
  /\ repo \in {None, [by |-> 0, files |-> {}]}
  /\ objects = {} /\ puts = {} /\ output = None

StepNext ==
  \/ Begin \/ PutEvent \/ CreateResource \/ Waited \/ ReadStatus
  \/ CreateRepository \/ CreateCommit \/ Copy \/ Progress \/ WorkerDies \/ Again
  \/ \E f \in puts : Upload(f)

StepSpec == StepInit /\ [][StepNext]_stepVars

-----------------------------------------------------------------------------
(* Properties. *)

ResourceRequests == [token : BOOLEAN, state : {"pending", "success", "failed"}]
Places ==
  {"ready", "put event", "create resource", "wait", "status", "create repository",
   "create commit", "copy", "upload"} \cup Over

\* Types of all variables; an attempt waits for a request it was given.
StepTypeOK ==
  /\ input \in Inputs /\ attempt \in 1..MaxAttempts /\ pc \in Places
  /\ posted \subseteq 1..MaxAttempts /\ refused \subseteq 1..MaxAttempts
  /\ requests \in Seq(ResourceRequests) /\ mine \in Nat \cup {None}
  /\ repo \in Repositories \cup {None}
  /\ objects \subseteq Workspace /\ puts \subseteq Workspace
  /\ output \in Repositories \cup ResourceRequests \cup {None}

\* An attempt that is reported as done has done its own work, and not by an earlier
\* one's: the bus took its event, unless it refused the entry in its answer, which
\* eventbridge.ts does not look at; the resource exists, if the step was to wait for
\* it; a repository without a sourcePath holds the workspace and nothing else; every
\* matching file is in the bucket.
DoneIsDone ==
  pc = "done" =>
    /\ input.action = "event" /\ attempt \notin refused => attempt \in posted
    /\ input.action = "create" /\ input.wait => requests[mine].state = "success"
    /\ input.action = "publish" /\ ~input.source => repo = [by |-> attempt, files |-> AllFiles]
    /\ input.action = "cp" => Matched \subseteq objects

\* With a sourcePath, which by publish.ts:50-54 is used as the repository root, the
\* repository holds what is inside it.
SourcePathIsRoot ==
  pc = "done" /\ input.action = "publish" /\ input.source =>
    repo.files = {f \in AllFiles : f.inside}

\* However often a step is attempted, with answers lost and workers crashed, a
\* client token makes one request, and files are committed to a repository only by
\* the attempt that created it.
AttemptsDoNotMeet ==
  /\ Cardinality({i \in DOMAIN requests : input.token}) <= 1
  /\ pc = "create commit" => repo # None /\ repo.by = attempt
=============================================================================
