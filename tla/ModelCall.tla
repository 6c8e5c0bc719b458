------------------------------- MODULE ModelCall -------------------------------
(***************************************************************************)
(* Model calls of several workers, from the request to the archived raw    *)
(* answer: the adapters (src/novel_ai/providers), the codex process with   *)
(* its temporary directory, and the object store the workers share         *)
(* (storage/objects.py).                                                   *)
(*                                                                         *)
(* A caller is a worker process that makes one call.  The codex CLI is a   *)
(* process of its own: it prints events, writes its final message and      *)
(* exits when it wants to, or never; it starts no process that outlives    *)
(* it.  The directory of the store is on a file system where a rename is   *)
(* atomic and a write is not.  A caller can crash between any two steps.   *)
(***************************************************************************)
EXTENDS ProviderAnswers

CONSTANTS
    Callers,        \* worker processes
    Payloads,       \* raw payloads of answers, named by their digests
    Nothing,        \* no payload
    RequestsMade,   \* the requests callers make
    MaxItems,       \* bound: output items of an OpenAI answer
    MaxEvents       \* bound: events of one codex process

ASSUME ModelCallAssumption ==
    /\ Nothing \notin Payloads
    /\ RequestsMade \subseteq Requests
    /\ MaxItems \in Nat /\ MaxEvents \in Nat

VARIABLES
    call,       \* call[c]: the call of caller c
    child,      \* child[c]: the codex process of c
    object,     \* object[p]: the file at the path of digest p
    temporary,  \* temporary[c]: c's temporary file in the store
    row         \* row[c]: the payload the committed generation row refers to

vars == <<call, child, object, temporary, row>>

-------------------------------------------------------------------------------
(* State *)

(* The steps of put_json follow the answer. *)
CallSteps == {"idle", "login", "checking", "start", "http", "exec", "kill", "answered",
              "write", "rename", "stat", "stored", "archived", "failed", "dead"}

(* payload is the raw payload of an accepted answer, final says whether the answer was a *)
(* final one, directory whether the temporary directory exists.                          *)
Calls == [step : CallSteps, route : Routes, final : BOOLEAN,
          payload : Payloads \cup {Nothing}, directory : BOOLEAN]

NoCall == [step |-> "idle", route |-> "openai", final |-> FALSE, payload |-> Nothing,
           directory |-> FALSE]

ProcessStates == {"none", "running", "killed", "exited"}

Processes == [state : ProcessStates, stdout : Seq(Events), file : Files]

NoProcess == [state |-> "none", stdout |-> <<>>, file |-> "missing"]

FileStates == {"absent", "partial", "whole"}

Set(c, changed) == call' = [call EXCEPT ![c] = changed]

Outcome(code, final) == [code |-> code, final |-> final]

(* Fault: the raw payload is not handed on. *)
NoPayload == {Nothing}

(* raw_payload of a response. *)
RawPayload == Payloads

(* The call comes to its outcome; an accepted answer goes on to the store with a payload. *)
(* The temporary directory of a codex process is removed.                                 *)
End(c, outcome) ==
    \/ /\ outcome.code = Accepted
       /\ \E p \in RawPayload :
              Set(c, [NoCall EXCEPT !.step = "answered", !.final = outcome.final, !.payload = p])
    \/ /\ outcome.code # Accepted
       /\ Set(c, [NoCall EXCEPT !.step = "failed"])

-------------------------------------------------------------------------------
(* The adapters *)

(* ModelGateway.generate and what the adapter checks before it sends anything. *)
Generate(c) ==
    /\ call[c].step = "idle"
    /\ \E r \in RequestsMade, usable \in BOOLEAN :
           IF ConfigurationCode(r, usable) # Accepted
           THEN Set(c, [NoCall EXCEPT !.step = "failed"])
           ELSE Set(c, [NoCall EXCEPT
                    !.route = r.route,
                    !.step = IF r.route = "openai_codex_session" THEN "login" ELSE "http"])
    /\ UNCHANGED <<child, object, temporary, row>>

HttpOutcomes == {Outcome(code, FALSE) : code \in HttpFaults \cup {HttpCode(s) : s \in HttpStatuses}}

OpenAIOutcomes == {Outcome(OpenAICode(a), OpenAIFinal(a)) : a \in OpenAIAnswers(MaxItems)}

DeepSeekOutcomes == {Outcome(DeepSeekCode(a), DeepSeekFinal(a)) : a \in DeepSeekAnswers}

(* post_json fails, or the adapter parses the answer. *)
ReceiveHttp(c) ==
    /\ call[c].step = "http"
    /\ \E o \in HttpOutcomes \cup (IF call[c].route = "openai" THEN OpenAIOutcomes
                                                             ELSE DeepSeekOutcomes) : End(c, o)
    /\ UNCHANGED <<child, object, temporary, row>>

(* The session's process is started with a temporary directory, the login check's     *)
(* without one.                                                                        *)
StartProcess(c, step, directory) ==
    /\ Set(c, [call[c] EXCEPT !.step = step, !.directory = directory])
    /\ child' = [child EXCEPT ![c] = [NoProcess EXCEPT !.state = "running"]]

(* `codex` cannot be started: an OSError. *)
StartFails(c) == End(c, Outcome("CODEX_CLI_NOT_FOUND", FALSE)) /\ UNCHANGED child

(* `codex login status`, a process of its own. *)
RequireLogin(c) ==
    /\ call[c].step = "login"
    /\ StartFails(c) \/ StartProcess(c, "checking", FALSE)
    /\ UNCHANGED <<object, temporary, row>>

(* It has exited before the timeout, and says whether codex is logged in. *)
ReceiveLogin(c) ==
    /\ call[c].step = "checking" /\ child[c].state = "exited"
    /\ \/ End(c, Outcome("CHATGPT_LOGIN_REQUIRED", FALSE))
       \/ Set(c, [call[c] EXCEPT !.step = "start"])
    /\ child' = [child EXCEPT ![c] = NoProcess]
    /\ UNCHANGED <<object, temporary, row>>

(* `codex exec` in its temporary directory. *)
StartSession(c) ==
    /\ call[c].step = "start"
    /\ StartFails(c) \/ StartProcess(c, "exec", TRUE)
    /\ UNCHANGED <<object, temporary, row>>

(* The process exits, prints an event or writes its final message; what it prints after   *)
(* its caller has died is read by nobody.                                                 *)
ChildRuns(c) ==
    /\ child[c].state = "running"
    /\ \/ child' = [child EXCEPT ![c].state = "exited"]
       \/ \E e \in Events : /\ call[c].step = "exec"
                            /\ Len(child[c].stdout) < MaxEvents         \* bound
                            /\ child' = [child EXCEPT ![c].stdout = Append(@, e)]
       \/ \E f \in Files \ {"missing"} : /\ child[c].file = "missing"
                                         /\ call[c].directory
                                         /\ child' = [child EXCEPT ![c].file = f]
    /\ UNCHANGED <<call, object, temporary, row>>

(* The process has exited before the timeout. *)
ReceiveSession(c) ==
    /\ call[c].step = "exec" /\ child[c].state = "exited"
    /\ \E exit \in {0, 1}, printed \in SUBSET Phrases :
           End(c, Outcome(SessionCode(exit, printed, child[c].stdout, child[c].file),
                          SessionFinal(exit, child[c].stdout, child[c].file)))
    /\ child' = [child EXCEPT ![c] = NoProcess]
    /\ UNCHANGED <<object, temporary, row>>

(* Fault: the process is left alone. *)
LeftRunning(c) == child[c].state

(* process.kill(), a signal the process does not survive. *)
Killed(c) == IF child[c].state = "running" THEN "killed" ELSE child[c].state

(* Fault: the process is waited for without a timeout. *)
WaitsForever(c) == FALSE

(* asyncio.wait_for raises TimeoutError: the process is killed first, and what it printed *)
(* is not looked at ...                                                                   *)
TimeOut(c) ==
    /\ call[c].step \in {"checking", "exec"}
    /\ Set(c, [call[c] EXCEPT !.step = "kill"])
    /\ child' = [child EXCEPT ![c] = [NoProcess EXCEPT !.state = Killed(c)]]
    /\ UNCHANGED <<object, temporary, row>>

(* ... and waited for; then the call fails and the directory goes. *)
ReapChild(c) ==
    /\ call[c].step = "kill"
    /\ End(c, Outcome(IF call[c].directory THEN "TIMEOUT" ELSE "CODEX_AUTH_CHECK_TIMEOUT", FALSE))
    /\ child' = [child EXCEPT ![c] = IF @.state = "running" THEN @ ELSE NoProcess]
    /\ UNCHANGED <<object, temporary, row>>

(* The process exits as the timeout strikes: kill() finds none, and its                    *)
(* ProcessLookupError is taken for an OSError of the start.                                *)
KillTooLate(c) ==
    /\ call[c].step \in {"checking", "exec"} /\ child[c].state = "exited"
    /\ End(c, Outcome("CODEX_CLI_NOT_FOUND", FALSE))
    /\ child' = [child EXCEPT ![c] = NoProcess]
    /\ UNCHANGED <<object, temporary, row>>

-------------------------------------------------------------------------------
(* The object store *)

(* LocalObjectStore.put_json: an object that exists is not written again. *)
CheckObject(c) ==
    /\ call[c].step = "answered"
    /\ IF object[call[c].payload] # "absent"
       THEN /\ Set(c, [call[c] EXCEPT !.step = "stat"])
            /\ UNCHANGED temporary
       ELSE /\ Set(c, [call[c] EXCEPT !.step = "write"])
            /\ temporary' = [temporary EXCEPT ![c] = "partial"]
    /\ UNCHANGED <<child, object, row>>

WriteTemporary(c) ==
    /\ call[c].step = "write"
    /\ temporary' = [temporary EXCEPT ![c] = "whole"]
    /\ Set(c, [call[c] EXCEPT !.step = "rename"])
    /\ UNCHANGED <<child, object, row>>

(* A write fails (a full disk): the temporary file is removed, the error is nobody's     *)
(* and ends the worker.                                                                   *)
WriteFails(c) ==
    /\ call[c].step = "write"
    /\ temporary' = [temporary EXCEPT ![c] = "absent"]
    /\ Set(c, [NoCall EXCEPT !.step = "dead"])
    /\ UNCHANGED <<child, object, row>>

(* os.replace. *)
RenameTemporary(c) ==
    /\ call[c].step = "rename"
    /\ object' = [object EXCEPT ![call[c].payload] = temporary[c]]
    /\ temporary' = [temporary EXCEPT ![c] = "absent"]
    /\ Set(c, [call[c] EXCEPT !.step = "stat"])
    /\ UNCHANGED <<child, row>>

(* Fault: the row is committed while the file is written. *)
ArchivedEarly == {"write", "stored"}

(* The worker commits the row once put_json has returned. *)
ArchivedFrom == {"stored"}

(* target.stat() gives the size; the file must be there. *)
StatObject(c) ==
    /\ call[c].step = "stat"
    /\ object[call[c].payload] # "absent"
    /\ Set(c, [call[c] EXCEPT !.step = "stored"])
    /\ UNCHANGED <<child, object, temporary, row>>

(* The worker commits the generation row with raw_response_uri. *)
CommitRow(c) ==
    /\ call[c].step \in ArchivedFrom
    /\ row' = [row EXCEPT ![c] = call[c].payload]
    /\ Set(c, [call[c] EXCEPT !.step = "archived"])
    /\ UNCHANGED <<child, object, temporary>>

(* The worker process is killed: its temporary file stays, and its child runs on. *)
Crash(c) ==
    /\ call[c].step \notin {"idle", "archived", "failed", "dead"}
    /\ Set(c, [NoCall EXCEPT !.step = "dead"])
    /\ child' = [child EXCEPT ![c] = [NoProcess EXCEPT !.state = child[c].state]]
    /\ UNCHANGED <<object, temporary, row>>

-------------------------------------------------------------------------------
(* The specification *)

CallInit ==
    /\ call = [c \in Callers |-> NoCall]
    /\ child = [c \in Callers |-> NoProcess]
    /\ object = [p \in Payloads |-> "absent"]
    /\ temporary = [c \in Callers |-> "absent"]
    /\ row = [c \in Callers |-> Nothing]

(* What a caller does once it has its turn; an HTTP answer or an error comes in the end   *)
(* because the client has a timeout.                                                      *)
CallerStep(c) ==
    \/ ReceiveHttp(c)
    \/ RequireLogin(c) \/ ReceiveLogin(c) \/ StartSession(c) \/ ReceiveSession(c)
    \/ TimeOut(c) \/ ReapChild(c) \/ KillTooLate(c)
    \/ CheckObject(c) \/ WriteTemporary(c) \/ WriteFails(c)
    \/ RenameTemporary(c) \/ StatObject(c) \/ CommitRow(c)

CallNext == \E c \in Callers : Generate(c) \/ CallerStep(c) \/ ChildRuns(c) \/ Crash(c)

CallSpec == CallInit /\ [][CallNext]_vars

(* Nothing is assumed of the codex process. *)
FairCallSpec == CallSpec /\ \A c \in Callers : WF_vars(CallerStep(c))

-------------------------------------------------------------------------------
(* Properties *)

(* Calls, processes and files have their types. *)
CallTypeOK ==
    /\ call \in [Callers -> Calls]
    /\ \A c \in Callers : call[c].step \in {"answered", "write", "rename", "stat", "stored"}
                              => call[c].payload # Nothing
    /\ child \in [Callers -> Processes]
    /\ object \in [Payloads -> FileStates]
    /\ temporary \in [Callers -> FileStates]
    /\ row \in [Callers -> Payloads \cup {Nothing}]

(* Whatever a provider sends or the codex process prints, a text is accepted only from a *)
(* final answer: not from reasoning, a tool's item, a refusal, a truncated or an empty    *)
(* answer, nor, over HTTP, from one of several messages.  A codex session may report      *)
(* several messages; the file of the last one is its answer (providers/openai.py:85-171,  *)
(* deepseek.py:95-159, codex_session.py:354-421; docs/PROVIDER_INTEGRATION.md:57).        *)
AcceptedAnswerIsFinal ==
    \A c \in Callers : call[c].payload # Nothing => call[c].final

(* A call that has come to an end, also by a timeout, leaves no codex process behind, the  *)
(* login check's neither, and no session runs in a directory that was removed             *)
(* (codex_session.py:129, :234-239, :446-449).                                            *)
EndedCallLeavesNoProcess ==
    \A c \in Callers :
        /\ call[c].step \in {"answered", "failed", "archived"} => child[c].state = "none"
        /\ (call[c].step \notin {"checking", "dead"} /\ child[c].state = "running") =>
               call[c].directory

(* Two workers may store one payload at once and each may die at any point: a file that   *)
(* can be seen at a digest's path is whole, and a committed row refers to one             *)
(* (storage/objects.py:34-46, docs/WRITING_WORKSPACE.md:68).                              *)
RowsReferToWholeObjects ==
    /\ \A p \in Payloads : object[p] # "partial"
    /\ \A c \in Callers : row[c] # Nothing => object[row[c]] = "whole"

(* A call ends: with an archived answer, with an error, or with its worker, even when the  *)
(* codex process hangs (codex_session.py:443-449).                                         *)
EveryCallEnds ==
    \A c \in Callers :
        call[c].step # "idle" ~> call[c].step \in {"archived", "failed", "dead"}
===============================================================================
