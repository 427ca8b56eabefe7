-------------------------- MODULE ScaffolderStepsProofs --------------------------
(* Proofs of the safety of ScaffolderSteps, for any workspace and any number of   *)
(* attempts.                                                                      *)
EXTENDS ScaffolderSteps, FiniteSetTheorems, TLAPS

\* A handler is only ever in the places of its own action.
OwnPlaces ==
  /\ pc = "put event" => input.action = "event"
  /\ pc \in {"create resource", "wait", "status"} => input.action = "create"
  /\ pc \in {"create repository", "create commit"} => input.action = "publish"
  /\ pc \in {"copy", "upload"} => input.action = "cp"

\* Who waits for a request has one, and whoever reads its status has seen it succeed.
WaitsForItsOwn ==
  /\ pc \in {"wait", "status"} => mine \in DOMAIN requests /\ input.wait
  /\ pc = "done" /\ input.action = "create" /\ input.wait => mine \in DOMAIN requests
  /\ pc = "status" => requests[mine].state = "success"

\* While a copy runs, what is not uploaded yet is on its way.
OnItsWay == pc = "upload" => Matched \subseteq objects \cup puts

\* Requests carry the token of the input, and one token makes one.
OneRequest ==
  /\ \A i \in DOMAIN requests : requests[i].token = input.token
  /\ input.token => Len(requests) <= 1

\* The repository committed to is this attempt's, and empty until then.
OwnRepository == pc = "create commit" => repo # None /\ repo.by = attempt /\ repo.files = {}

Facts == OwnPlaces /\ WaitsForItsOwn /\ OnItsWay /\ OneRequest /\ OwnRepository /\ DoneIsDone
Inv == StepTypeOK /\ Facts

-----------------------------------------------------------------------------
\* What is copied and matched is in the workspace.
LEMMA FilesType == AllFiles \subseteq Workspace /\ Matched \subseteq Workspace
  BY DEF AllFiles, Matched

\* A task begins with nothing done.
LEMMA InitInv == StepInit => Inv
<1>. SUFFICES ASSUME StepInit PROVE Inv
  OBVIOUS
<1>1. [by |-> 0, files |-> {}] \in Repositories
  BY WorkspaceAssumption DEF Repositories
<1>2. 1 \in 1..MaxAttempts /\ <<>> \in Seq(ResourceRequests)
  BY WorkspaceAssumption
<1>3. StepTypeOK
  BY <1>1, <1>2, Zenon DEF StepInit, StepTypeOK, Places, Over
<1>. QED
  BY <1>3 DEF StepInit, Inv, Facts, OwnPlaces, WaitsForItsOwn, OnItsWay, OneRequest,
             OwnRepository, DoneIsDone

LEMMA BeginInv == Inv /\ Begin => Inv'
<1>. SUFFICES ASSUME Inv, Begin PROVE Inv'
  OBVIOUS
<1>1. /\ pc = "ready" /\ UNCHANGED <<input, attempt, mine, puts, output, posted, refused, requests, repo, objects>>
      /\ pc' \in {CallOf(input.action), "failed"}
  BY DEF Begin, Handler, awsVars
<1>2. input.action \in {"event", "create", "publish", "cp"}
  BY DEF Inv, StepTypeOK, Inputs
<1>3. pc' \in {"put event", "create resource", "create repository", "copy", "failed"}
      /\ OwnPlaces'
  BY <1>1, <1>2 DEF CallOf, OwnPlaces
<1>4. StepTypeOK'
  BY <1>1, <1>3 DEF Inv, StepTypeOK, Places, Over
<1>. QED
  BY <1>1, <1>3, <1>4 DEF Inv, Facts, WaitsForItsOwn, OnItsWay, OneRequest, OwnRepository, DoneIsDone

LEMMA PutEventInv == Inv /\ PutEvent => Inv'
<1>. SUFFICES ASSUME Inv, PutEvent PROVE Inv'
  OBVIOUS
<1>1. /\ pc = "put event" /\ UNCHANGED <<input, attempt, mine, puts, output, requests, repo, objects>>
      /\ pc' \in Over /\ posted' \in {posted, posted \cup {attempt}}
      /\ refused' \in {refused, refused \cup {attempt}}
      /\ pc' = "done" => attempt \in posted' \cup refused'
  BY DEF PutEvent, Handler, Over
<1>2. input.action = "event"
  BY <1>1, Zenon DEF Inv, Facts, OwnPlaces
<1>3. posted' \subseteq 1..MaxAttempts /\ refused' \subseteq 1..MaxAttempts
  BY <1>1 DEF Inv, StepTypeOK
<1>4. StepTypeOK'
  BY <1>1, <1>3 DEF Inv, StepTypeOK, Places, Over
<1>5. DoneIsDone'
  BY <1>1, <1>2 DEF DoneIsDone
<1>. QED
  BY <1>1, <1>4, <1>5 DEF Inv, Facts, OwnPlaces, WaitsForItsOwn, OnItsWay, OneRequest, OwnRepository, Over

\* A request is found again by its token, or added at the end.
LEMMA CreateResourceInv == Inv /\ CreateResource => Inv'
<1>. SUFFICES ASSUME Inv, CreateResource PROVE Inv'
  OBVIOUS
<1>1. /\ pc = "create resource"
      /\ UNCHANGED <<input, attempt, puts, output, posted, refused, repo, objects>>
  BY DEF CreateResource, Handler
<1>2. requests \in Seq(ResourceRequests) /\ input \in Inputs
  BY DEF Inv, StepTypeOK
<1>3. CASE UNCHANGED <<requests, mine>> /\ pc' = "failed"
  <2>1. StepTypeOK'
    BY <1>1, <1>3 DEF Inv, StepTypeOK, Places, Over
  <2>. QED
    BY <1>1, <1>3, <2>1 DEF Inv, Facts, OwnPlaces, WaitsForItsOwn, OnItsWay, OneRequest, OwnRepository, DoneIsDone
<1>4. CASE /\ requests' = IF Known # {} THEN requests
                          ELSE Append(requests, [token |-> Told, state |-> "pending"])
           /\ mine' = IF Known # {} THEN CHOOSE i \in Known : TRUE ELSE Len(requests) + 1
           /\ pc' \in {IF input.wait THEN "wait" ELSE "done", "failed"}
  <2>1. Told = input.token /\ input.token \in BOOLEAN /\ input.wait \in BOOLEAN
    BY <1>2 DEF Told, Inputs
  <2>2. /\ requests' \in Seq(ResourceRequests) /\ mine' \in DOMAIN requests' /\ mine' \in Nat
        /\ OneRequest'
    <3>1. CASE Known # {}
      <4>1. requests' = requests /\ mine' \in Known
        BY <1>4, <3>1
      <4>2. mine' \in DOMAIN requests /\ mine' \in Nat
        BY <1>2, <4>1 DEF Known
      <4>. QED
        BY <1>1, <1>2, <4>1, <4>2 DEF Inv, Facts, OneRequest
    <3>2. CASE Known = {}
      <4>1. [token |-> Told, state |-> "pending"] \in ResourceRequests
        BY <2>1 DEF ResourceRequests
      <4>2. /\ requests' = Append(requests, [token |-> Told, state |-> "pending"])
            /\ mine' = Len(requests) + 1
        BY <1>4, <3>2
      <4>3. input.token => Len(requests) = 0
        <5>. SUFFICES ASSUME input.token, Len(requests) # 0 PROVE FALSE
          OBVIOUS
        <5>1. 1 \in DOMAIN requests
          BY <1>2
        <5>2. 1 \in Known
          BY <2>1, <5>1 DEF Known, Inv, Facts, OneRequest
        <5>. QED
          BY <3>2, <5>2
      <4>4. \A i \in DOMAIN requests : requests[i].token = input.token
        BY DEF Inv, Facts, OneRequest
      <4>5. /\ requests' \in Seq(ResourceRequests) /\ Len(requests') = Len(requests) + 1
            /\ DOMAIN requests' = 1..Len(requests) + 1
            /\ \A i \in 1..Len(requests) : requests'[i] = requests[i]
            /\ requests'[Len(requests) + 1].token = input.token
        BY <1>2, <2>1, <4>1, <4>2
      <4>6. mine' \in DOMAIN requests' /\ mine' \in Nat
        BY <1>2, <4>2, <4>5
      <4>7. \A i \in DOMAIN requests' : requests'[i].token = input.token
        BY <1>2, <4>4, <4>5
      <4>9. input.token => Len(requests') <= 1
        BY <1>2, <4>3, <4>5
      <4>8. OneRequest'
        BY <1>1, <4>7, <4>9, Zenon DEF OneRequest
      <4>. QED
        BY <4>5, <4>6, <4>8
    <3>. QED
      BY <3>1, <3>2
  <2>3. pc' \in {"wait", "done", "failed"} /\ (pc' = "wait" => input.wait) /\ (pc' = "done" => ~input.wait)
        /\ input.action = "create"
    BY <1>1, <1>4, <2>1 DEF Inv, Facts, OwnPlaces
  <2>4. StepTypeOK'
    BY <1>1, <2>2, <2>3 DEF Inv, StepTypeOK, Places, Over
  <2>. QED
    BY <1>1, <2>2, <2>3, <2>4 DEF Inv, Facts, OwnPlaces, WaitsForItsOwn, OnItsWay, OwnRepository, DoneIsDone
<1>. QED
  BY <1>3, <1>4 DEF CreateResource, Handler

LEMMA WaitedInv == Inv /\ Waited => Inv'
<1>. SUFFICES ASSUME Inv, Waited PROVE Inv'
  OBVIOUS
<1>1. /\ pc = "wait" /\ UNCHANGED <<input, attempt, mine, puts, output, posted, refused, requests, repo, objects>>
      /\ pc' = "failed" \/ (pc' = "status" /\ requests[mine].state = "success")
  BY DEF Waited, Handler, awsVars
<1>2. StepTypeOK'
  BY <1>1 DEF Inv, StepTypeOK, Places, Over
<1>. QED
  BY <1>1, <1>2 DEF Inv, Facts, OwnPlaces, WaitsForItsOwn, OnItsWay, OneRequest, OwnRepository, DoneIsDone

LEMMA ReadStatusInv == Inv /\ ReadStatus => Inv'
<1>. SUFFICES ASSUME Inv, ReadStatus PROVE Inv'
  OBVIOUS
<1>1. /\ pc = "status" /\ UNCHANGED <<input, attempt, mine, puts, posted, refused, requests, repo, objects>>
      /\ pc' \in {"done", "failed"} /\ output' \in {output, requests[mine]}
  BY DEF ReadStatus, Handler, awsVars
<1>2. requests[mine] \in ResourceRequests
  BY <1>1 DEF Inv, Facts, WaitsForItsOwn, StepTypeOK
<1>3. StepTypeOK'
  BY <1>1, <1>2 DEF Inv, StepTypeOK, Places, Over
<1>. QED
  BY <1>1, <1>3 DEF Inv, Facts, OwnPlaces, WaitsForItsOwn, OnItsWay, OneRequest, OwnRepository, DoneIsDone

LEMMA CreateRepositoryInv == Inv /\ CreateRepository => Inv'
<1>. SUFFICES ASSUME Inv, CreateRepository PROVE Inv'
  OBVIOUS
<1>1. /\ pc = "create repository"
      /\ UNCHANGED <<input, attempt, mine, puts, output, posted, refused, requests, objects>>
      /\ \/ pc' = "failed" /\ repo' = repo
         \/ pc' \in {"create commit", "failed"} /\ repo' = [by |-> attempt, files |-> {}]
  BY DEF CreateRepository, Handler
<1>2. [by |-> attempt, files |-> {}] \in Repositories
  BY WorkspaceAssumption DEF Inv, StepTypeOK, Repositories
<1>3. StepTypeOK'
  BY <1>1, <1>2 DEF Inv, StepTypeOK, Places, Over
<1>4. /\ [by |-> attempt, files |-> {}] # None /\ [by |-> attempt, files |-> {}].by = attempt
      /\ [by |-> attempt, files |-> {}].files = {}
  BY <1>2, NoneAssumption
<1>5. pc' = "create commit" => repo' # None /\ repo'.by = attempt' /\ repo'.files = {}
  BY <1>1, <1>4
<1>6. OwnRepository'
  BY <1>5 DEF OwnRepository
<1>. QED
  BY <1>1, <1>3, <1>6 DEF Inv, Facts, OwnPlaces, WaitsForItsOwn, OnItsWay, OneRequest, DoneIsDone

LEMMA CreateCommitInv == Inv /\ CreateCommit => Inv'
<1>. SUFFICES ASSUME Inv, CreateCommit PROVE Inv'
  OBVIOUS
<1>1. /\ pc = "create commit" /\ UNCHANGED <<input, attempt, mine, puts, posted, refused, requests, objects>>
      /\ \/ pc' = "failed" /\ UNCHANGED <<repo, output>>
         \/ /\ pc' \in {"done", "failed"} /\ output' \in {output, repo}
            /\ repo' = [repo EXCEPT !.files = @ \cup AllFiles]
  BY DEF CreateCommit, Handler
<1>2. /\ repo \in Repositories /\ repo # None /\ input.action = "publish"
      /\ repo.by = attempt /\ repo.files = {}
  BY <1>1 DEF Inv, Facts, OwnRepository, OwnPlaces, StepTypeOK
<1>3. /\ [repo EXCEPT !.files = @ \cup AllFiles] \in Repositories
      /\ [repo EXCEPT !.files = @ \cup AllFiles] = [by |-> attempt, files |-> AllFiles]
  BY <1>2, FilesType DEF Repositories
<1>4. StepTypeOK'
  BY <1>1, <1>2, <1>3 DEF Inv, StepTypeOK, Places, Over
<1>5. DoneIsDone'
  BY <1>1, <1>2, <1>3 DEF DoneIsDone
<1>. QED
  BY <1>1, <1>2, <1>4, <1>5 DEF Inv, Facts, OwnPlaces, WaitsForItsOwn, OnItsWay, OneRequest, OwnRepository

LEMMA CopyInv == Inv /\ Copy => Inv'
<1>. SUFFICES ASSUME Inv, Copy PROVE Inv'
  OBVIOUS
<1>1. /\ pc = "copy" /\ puts' = Matched /\ pc' = (IF Matched = {} THEN "done" ELSE "upload")
      /\ UNCHANGED <<input, attempt, mine, output, posted, refused, requests, repo, objects>>
  BY DEF Copy, Handler, awsVars
<1>2. input.action = "cp"
  BY <1>1 DEF Inv, Facts, OwnPlaces
<1>3. StepTypeOK'
  BY <1>1, FilesType DEF Inv, StepTypeOK, Places, Over
<1>. QED
  BY <1>1, <1>2, <1>3 DEF Inv, Facts, OwnPlaces, WaitsForItsOwn, OnItsWay, OneRequest, OwnRepository, DoneIsDone, Matched

LEMMA UploadInv == ASSUME Inv, NEW f \in puts, Upload(f) PROVE Inv'
<1>1. /\ puts' = puts \ {f} /\ UNCHANGED <<input, attempt, mine, output, posted, refused, requests, repo>>
      /\ \/ pc' = pc \/ (pc = "upload" /\ pc' = "failed")
         \/ pc = "upload" /\ puts' = {} /\ pc' = "done" /\ f \in objects'
      /\ objects' \in {objects, objects \cup {f}}
      /\ pc = "upload" /\ pc' = pc => f \in objects'
  BY DEF Upload
<1>2. f \in Workspace
  BY DEF Inv, StepTypeOK
<1>3. StepTypeOK'
  BY <1>1, <1>2 DEF Inv, StepTypeOK, Places, Over
<1>4. pc = "upload" => input.action = "cp" /\ Matched \subseteq objects \cup puts
  BY DEF Inv, Facts, OwnPlaces, OnItsWay
<1>5. OnItsWay'
  BY <1>1, <1>4 DEF OnItsWay, Matched
<1>6. DoneIsDone'
  BY <1>1, <1>4 DEF DoneIsDone, Inv, Facts, Matched, AllFiles
<1>. QED
  BY <1>1, <1>3, <1>4, <1>5, <1>6 DEF Inv, Facts, OwnPlaces, WaitsForItsOwn, OneRequest, OwnRepository

\* A request moves on once: one that succeeded stays so.
LEMMA ProgressInv == Inv /\ Progress => Inv'
<1>. SUFFICES ASSUME Inv, Progress PROVE Inv'
  OBVIOUS
<1>1. UNCHANGED <<input, attempt, pc, mine, puts, output, posted, refused, repo, objects>>
  BY DEF Progress
<1>2. PICK i \in DOMAIN requests, s \in {"success", "failed"} :
        requests[i].state = "pending" /\ requests' = [requests EXCEPT ![i].state = s]
  BY DEF Progress
<1>3. requests \in Seq(ResourceRequests)
  BY DEF Inv, StepTypeOK
<1>8. requests[i] \in ResourceRequests
  BY <1>3
<1>6. [requests[i] EXCEPT !.state = s] \in ResourceRequests
  BY <1>8 DEF ResourceRequests
<1>7. requests' = [requests EXCEPT ![i] = [requests[i] EXCEPT !.state = s]]
  BY <1>2, <1>3
<1>4. /\ requests' \in Seq(ResourceRequests) /\ DOMAIN requests' = DOMAIN requests
      /\ Len(requests') = Len(requests)
      /\ \A k \in DOMAIN requests :
           /\ requests'[k].token = requests[k].token
           /\ requests[k].state = "success" => requests'[k].state = "success"
  BY <1>2, <1>3, <1>6, <1>7 DEF ResourceRequests
<1>5. StepTypeOK'
  BY <1>1, <1>4 DEF Inv, StepTypeOK
<1>. QED
  BY <1>1, <1>4, <1>5 DEF Inv, Facts, OwnPlaces, WaitsForItsOwn, OnItsWay, OneRequest, OwnRepository, DoneIsDone, Matched, AllFiles

LEMMA WorkerDiesInv == Inv /\ WorkerDies => Inv'
<1>. SUFFICES ASSUME Inv, WorkerDies PROVE Inv'
  OBVIOUS
<1>1. /\ pc' = "failed" /\ puts' = {}
      /\ UNCHANGED <<input, attempt, mine, output, posted, refused, requests, repo, objects>>
  BY DEF WorkerDies, Handler, awsVars
<1>2. StepTypeOK'
  BY <1>1 DEF Inv, StepTypeOK, Places, Over
<1>. QED
  BY <1>1, <1>2 DEF Inv, Facts, OwnPlaces, WaitsForItsOwn, OnItsWay, OneRequest, OwnRepository, DoneIsDone

LEMMA AgainInv == Inv /\ Again => Inv'
<1>. SUFFICES ASSUME Inv, Again PROVE Inv'
  OBVIOUS
<1>1. /\ pc' = "ready" /\ attempt' = attempt + 1 /\ attempt < MaxAttempts /\ mine' = None /\ output' = None
      /\ UNCHANGED <<input, puts, posted, refused, requests, repo, objects>>
  BY DEF Again, awsVars
<1>2. attempt' \in 1..MaxAttempts
  BY <1>1, WorkspaceAssumption DEF Inv, StepTypeOK
<1>3. StepTypeOK'
  BY <1>1, <1>2 DEF Inv, StepTypeOK, Places
<1>. QED
  BY <1>1, <1>3 DEF Inv, Facts, OwnPlaces, WaitsForItsOwn, OnItsWay, OneRequest, OwnRepository, DoneIsDone

\* Every step of a task, crash or second try keeps the invariant.
LEMMA NextInv == Inv /\ [StepNext]_stepVars => Inv'
<1>. SUFFICES ASSUME Inv, [StepNext]_stepVars PROVE Inv'
  OBVIOUS
<1>1. CASE UNCHANGED stepVars
  BY <1>1 DEF stepVars, awsVars, Inv, StepTypeOK, Facts, OwnPlaces, WaitsForItsOwn, OnItsWay,
              OneRequest, OwnRepository, DoneIsDone, Matched, AllFiles
<1>2. CASE StepNext
  BY <1>2, BeginInv, PutEventInv, CreateResourceInv, WaitedInv, ReadStatusInv,
     CreateRepositoryInv, CreateCommitInv, CopyInv, UploadInv, ProgressInv, WorkerDiesInv, AgainInv
  DEF StepNext
<1>. QED
  BY <1>1, <1>2

\* The invariant, however often a step is tried.
LEMMA Safety == StepSpec => []Inv
  BY InitInv, NextInv, PTL DEF StepSpec

-----------------------------------------------------------------------------
\* What a step of the four scaffolder actions keeps is well typed, however often
\* it is attempted.
THEOREM TypeCorrect == StepSpec => []StepTypeOK
<1>1. Inv => StepTypeOK
  BY DEF Inv
<1>. QED
  BY Safety, <1>1, PTL

\* What a step that is reported as done can be taken to have done itself (create.ts,
\* publish.ts without a sourcePath, cp.ts, and eventbridge.ts but for a refused entry),
\* in any workspace and after any number of failed attempts.
THEOREM WorkIsDone == StepSpec => []DoneIsDone
<1>1. Inv => DoneIsDone
  BY DEF Inv, Facts
<1>. QED
  BY Safety, <1>1, PTL

\* One client token makes one request, and an attempt commits only to the
\* repository it created, however many attempts there are and whatever answers
\* are lost.
THEOREM AttemptsApart == StepSpec => []AttemptsDoNotMeet
<1>1. Inv => AttemptsDoNotMeet
  <2>. SUFFICES ASSUME Inv PROVE AttemptsDoNotMeet
    OBVIOUS
  <2>1. /\ input.token \in BOOLEAN /\ Len(requests) \in Nat /\ DOMAIN requests = 1..Len(requests)
        /\ input.token => Len(requests) <= 1
    BY DEF Inv, StepTypeOK, Inputs, Facts, OneRequest
  <2>2. {i \in DOMAIN requests : input.token} \in {{}, {1}}
    BY <2>1
  <2>3. Cardinality({i \in DOMAIN requests : input.token}) <= 1
    BY <2>2, FS_EmptySet, FS_Singleton
  <2>. QED
    BY <2>3 DEF Inv, Facts, OwnRepository, AttemptsDoNotMeet
<1>. QED
  BY Safety, <1>1, PTL
=============================================================================
