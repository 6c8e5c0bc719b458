---------------------------- MODULE ModelCallProofs ----------------------------
(***************************************************************************)
(* Model calls of any number of workers on one object store, for any       *)
(* bounds.  Three arguments that do not need each other beyond the types:  *)
(* what an adapter accepts is final; a codex process runs only while its   *)
(* caller waits for it or is dead; a file reaches its digest's path by a   *)
(* rename of a whole file, and nothing takes it away again.                *)
(***************************************************************************)
EXTENDS ModelCall, TLAPS, FiniteSetTheorems

(* A process runs only while its caller waits for it, or after its death. *)
ProcessFollowsCall ==
    \A c \in Callers :
        /\ call[c].step \notin {"checking", "exec", "kill", "dead"} => child[c].state = "none"
        /\ call[c].step = "kill" => child[c].state # "running"
        /\ call[c].step = "exec" => call[c].directory

(* Where put_json has got to, in files. *)
StoreFollowsCall ==
    \A c \in Callers :
        /\ call[c].step = "rename" => temporary[c] = "whole"
        /\ call[c].step = "stored" => object[call[c].payload] = "whole"

CallInv == /\ CallTypeOK
           /\ AcceptedAnswerIsFinal
           /\ ProcessFollowsCall
           /\ StoreFollowsCall
           /\ RowsReferToWholeObjects

-------------------------------------------------------------------------------
(* What the adapters accept *)

(* A set of natural numbers that is not empty has a least element. *)
LEMMA LeastPosition ==
    ASSUME NEW S \in SUBSET Nat, S # {}
    PROVE  \E i \in S : \A j \in S : i <= j
  <1> DEFINE R == OpToRel(<, Nat)
  <1>1. IsWellFoundedOn(R, Nat)
    BY NatLessThanWellFounded
  <1>2. \A x, y \in Nat : <<y, x>> \in R <=> y < x
    BY DEF OpToRel
  <1> HIDE DEF R
  <1>3. PICK i \in S : \A j \in S : ~(<<j, i>> \in R)
    BY <1>1, WFMin
  <1>4. \A j \in S : i <= j
    <2> TAKE j \in S
    <2>1. i \in Nat /\ j \in Nat
      OBVIOUS
    <2>2. ~(j < i)
      BY <1>2, <1>3, <2>1
    <2> QED
      BY <2>1, <2>2
  <1> QED
    BY <1>4

(* Two different members make a set of more than one. *)
LEMMA TwoMembers ==
    ASSUME NEW S, IsFiniteSet(S), Cardinality(S) <= 1, NEW i \in S, NEW j \in S
    PROVE  i = j
  <1> SUFFICES ASSUME i # j PROVE FALSE
    OBVIOUS
  <1>1. IsFiniteSet({i}) /\ Cardinality({i}) = 1
    BY FS_Singleton
  <1>2. Cardinality({i} \cup {j}) = 2
    <2>1. j \notin {i}
      OBVIOUS
    <2>2. Cardinality({i} \cup {j}) = Cardinality({i}) + 1
      BY <1>1, <2>1, FS_AddElement
    <2> QED
      BY <1>1, <2>2
  <1>3. Cardinality({i} \cup {j}) <= Cardinality(S)
    BY FS_Subset
  <1>4. Cardinality(S) \in Nat
    BY FS_CardinalityType
  <1> QED
    BY <1>2, <1>3, <1>4

LEMMA GatewayAccepts ==
    ASSUME NEW t \in TextKinds \ {"none"}, GatewayCode(t) = Accepted
    PROVE  t = "valid"
  BY DEF TextKinds, GatewayCode, Accepted

LEMMA OpenAIAccepts ==
    ASSUME NEW a \in OpenAIAnswers(MaxItems), OpenAICode(a) = Accepted
    PROVE  OpenAIFinal(a)
  <1> DEFINE items == a.output
             messages == Positions(items, {"text", "blank", "refusal"})
  <1>1. /\ Positions(items, {"tool", "invalid"}) = {}
        /\ OneMessage(items)
        /\ Positions(items, {"refusal"}) = {}
        /\ a.status = "completed" /\ Positions(items, {"text"}) # {}
        /\ GatewayCode(a.text) = Accepted
    BY DEF OpenAICode, Accepted
  <1>2. PICK k \in 0 .. MaxItems : items \in [1 .. k -> OutputItems]
    BY DEF OpenAIAnswers
  <1>3. k \in Nat /\ DOMAIN items = 1 .. k
    BY <1>2, ModelCallAssumption
  <1>4. a.text = "valid"
    <2>1. a.text \in TextKinds \ {"none"}
      BY DEF OpenAIAnswers
    <2> QED
      BY <1>1, <2>1, GatewayAccepts
  <1>5. PICK i \in DOMAIN items : items[i] = "text"
    BY <1>1 DEF Positions
  <1>6. IsFiniteSet(messages) /\ Cardinality(messages) <= 1
    <2>1. IsFiniteSet(1 .. k)
      BY <1>3, FS_Interval
    <2>2. messages \in SUBSET (1 .. k)
      BY <1>3 DEF Positions
    <2> QED
      BY <1>1, <2>1, <2>2, FS_Subset DEF OneMessage
  <1>7. ASSUME NEW j \in DOMAIN items \ {i} PROVE items[j] = "reasoning"
    <2>1. i \in messages
      BY <1>5 DEF Positions
    <2>2. j \notin messages
      BY <1>6, <1>7, <2>1, TwoMembers
    <2>3. items[j] \notin {"text", "blank", "refusal", "tool", "invalid"}
      BY <1>1, <2>2 DEF Positions
    <2> QED
      BY <1>2, <1>3, <2>3 DEF OutputItems
  <1> QED
    BY <1>1, <1>4, <1>5, <1>7 DEF OpenAIFinal

LEMMA DeepSeekAccepts ==
    ASSUME NEW a \in DeepSeekAnswers, DeepSeekCode(a) = Accepted
    PROVE  DeepSeekFinal(a)
  <1>1. /\ a.choices = 1 /\ a.message = "assistant"
        /\ ~a.refusal /\ a.finish = "stop" /\ a.text # "none"
        /\ GatewayCode(a.text) = Accepted
    BY DEF DeepSeekCode, DeepSeekAnswers, Accepted
  <1>2. a.text = "valid"
    BY <1>1, GatewayAccepts DEF DeepSeekAnswers
  <1> QED
    BY <1>1, <1>2 DEF DeepSeekFinal

(* The first event that is refused decides, so an accepted stream has none. *)
LEMMA StreamAccepts ==
    ASSUME NEW stream \in Seq(Events), StreamCode(stream) = Accepted
    PROVE  /\ stream # <<>>
           /\ \A i \in DOMAIN stream : stream[i] \notin {"tool", "malformed", "turn.failed"}
  <1> DEFINE refused == {i \in DOMAIN stream : EventCode(stream[i]) # Accepted}
  <1>1. stream # <<>>
    BY DEF StreamCode, Accepted
  <1>2. refused = {}
    <2> SUFFICES ASSUME refused # {} PROVE FALSE
      OBVIOUS
    <2>1. refused \in SUBSET Nat
      OBVIOUS
    <2>2. \E i \in refused : \A j \in refused : i <= j
      BY <2>1, LeastPosition
    <2>3. (CHOOSE i \in refused : \A j \in refused : i <= j) \in refused
      BY <2>2
    <2>4. StreamCode(stream) =
              EventCode(stream[CHOOSE i \in refused : \A j \in refused : i <= j])
      BY <1>1 DEF StreamCode
    <2> QED
      BY <2>3, <2>4
  <1>3. \A i \in DOMAIN stream : EventCode(stream[i]) = Accepted
    BY <1>2
  <1>4. \A e \in Events : EventCode(e) = Accepted => e \notin {"tool", "malformed", "turn.failed"}
    BY DEF Events, EventCode, Accepted
  <1>5. \A i \in DOMAIN stream : stream[i] \in Events
    OBVIOUS
  <1> QED
    BY <1>1, <1>3, <1>4, <1>5

LEMMA SessionAccepts ==
    ASSUME NEW exit \in {0, 1}, NEW printed, NEW stream \in Seq(Events), NEW file \in Files,
           SessionCode(exit, printed, stream, file) = Accepted
    PROVE  SessionFinal(exit, stream, file)
  <1>1. FailureCode(printed) # Accepted
    BY DEF FailureCode, Accepted
  <1>2. exit = 0
    BY <1>1 DEF SessionCode
  <1>3. StreamCode(stream) = Accepted
    BY <1>2 DEF SessionCode
  <1>4. file \notin {"missing", "empty"} /\ GatewayCode(file) = Accepted
    BY <1>2, <1>3 DEF SessionCode, Accepted
  <1>5. file = "valid"
    BY <1>4, GatewayAccepts DEF Files, TextKinds
  <1> QED
    BY <1>2, <1>3, <1>5, StreamAccepts DEF SessionFinal

-------------------------------------------------------------------------------
(* The invariant *)

LEMMA EmptyTypes == /\ NoCall \in Calls /\ NoProcess \in Processes
                    /\ NoCall.payload = Nothing /\ NoProcess.state = "none"
  <1>1. NoCall \in Calls /\ NoCall.payload = Nothing
    BY DEF NoCall, Calls, CallSteps, Routes
  <1>2. <<>> \in Seq(Events)
    OBVIOUS
  <1>3. NoProcess \in Processes /\ NoProcess.state = "none"
    BY <1>2 DEF NoProcess, Processes, ProcessStates, Files
  <1> QED
    BY <1>1, <1>3

LEMMA CallInitInv == CallInit => CallInv
  <1> SUFFICES ASSUME CallInit PROVE CallInv
    OBVIOUS
  <1>1. \A c \in Callers : call[c] = NoCall /\ child[c] = NoProcess /\ row[c] = Nothing
    BY DEF CallInit
  <1>2. CallTypeOK
    <2>1. call \in [Callers -> Calls] /\ child \in [Callers -> Processes]
      BY EmptyTypes DEF CallInit
    <2>2. /\ object \in [Payloads -> FileStates] /\ temporary \in [Callers -> FileStates]
          /\ row \in [Callers -> Payloads \cup {Nothing}]
      BY DEF CallInit, FileStates
    <2>3. NoCall.step = "idle"
      BY DEF NoCall
    <2> QED
      BY <1>1, <2>1, <2>2, <2>3 DEF CallTypeOK
  <1>3. AcceptedAnswerIsFinal /\ ProcessFollowsCall /\ StoreFollowsCall
    BY <1>1 DEF AcceptedAnswerIsFinal, ProcessFollowsCall, StoreFollowsCall, NoCall, NoProcess
  <1>4. RowsReferToWholeObjects
    BY <1>1 DEF RowsReferToWholeObjects, CallInit
  <1> QED
    BY <1>2, <1>3, <1>4 DEF CallInv

(* A step of caller c that touches no file of the store: its new call k and process d fit  *)
(* each other, and k claims no file that is not there.                                     *)
LEMMA CallUpdate ==
    ASSUME CallInv, NEW c \in Callers,
           NEW k \in Calls, call' = [call EXCEPT ![c] = k],
           NEW d \in Processes, child' = [child EXCEPT ![c] = d],
           NEW f \in FileStates, temporary' = [temporary EXCEPT ![c] = f],
           UNCHANGED <<object, row>>,
           k.step \in {"answered", "write", "rename", "stat", "stored"} => k.payload # Nothing,
           k.payload # Nothing => k.final,
           k.step \notin {"checking", "exec", "kill", "dead"} => d.state = "none",
           k.step = "kill" => d.state # "running",
           k.step = "exec" => k.directory,
           k.step = "rename" => f = "whole",
           k.step = "stored" => object[k.payload] = "whole"
    PROVE  CallInv'
  <1>1. /\ call'[c] = k /\ child'[c] = d /\ temporary'[c] = f
        /\ \A b \in Callers : b # c => /\ call'[b] = call[b] /\ child'[b] = child[b]
                                       /\ temporary'[b] = temporary[b]
    BY DEF CallInv, CallTypeOK
  <1>2. CallTypeOK'
    <2>1. /\ call' \in [Callers -> Calls] /\ child' \in [Callers -> Processes]
          /\ object' \in [Payloads -> FileStates] /\ temporary' \in [Callers -> FileStates]
          /\ row' \in [Callers -> Payloads \cup {Nothing}]
      BY DEF CallInv, CallTypeOK
    <2>2. \A b \in Callers : call'[b].step \in {"answered", "write", "rename", "stat", "stored"}
                                 => call'[b].payload # Nothing
      BY <1>1 DEF CallInv, CallTypeOK
    <2> QED
      BY <2>1, <2>2 DEF CallTypeOK
  <1>3. AcceptedAnswerIsFinal'
    BY <1>1 DEF CallInv, AcceptedAnswerIsFinal
  <1>4. ProcessFollowsCall'
    BY <1>1 DEF CallInv, ProcessFollowsCall
  <1>5. StoreFollowsCall'
    BY <1>1 DEF CallInv, StoreFollowsCall
  <1>6. RowsReferToWholeObjects'
    BY DEF CallInv, RowsReferToWholeObjects
  <1> QED
    BY <1>2, <1>3, <1>4, <1>5, <1>6 DEF CallInv

(* What a caller has before its step. *)
LEMMA Before ==
    ASSUME CallInv, NEW c \in Callers
    PROVE  /\ call[c] \in Calls /\ child[c] \in Processes /\ temporary[c] \in FileStates
           /\ child = [child EXCEPT ![c] = child[c]]
           /\ temporary = [temporary EXCEPT ![c] = temporary[c]]
           /\ call = [call EXCEPT ![c] = call[c]]
           /\ call[c].payload # Nothing => call[c].final
           /\ call[c].step \notin {"checking", "exec", "kill", "dead"} => child[c].state = "none"
           /\ call[c].step = "kill" => child[c].state # "running"
           /\ call[c].step = "exec" => call[c].directory
           /\ call[c].step \in {"answered", "write", "rename", "stat", "stored"} =>
                  call[c].payload \in Payloads
  BY DEF CallInv, CallTypeOK, AcceptedAnswerIsFinal, ProcessFollowsCall, Calls

(* An outcome, accepted only when it is final, ends the call; no process is left. *)
LEMMA EndStep ==
    ASSUME CallInv, NEW c \in Callers, NEW code, NEW final \in BOOLEAN,
           End(c, Outcome(code, final)), code = Accepted => final,
           NEW d \in Processes, child' = [child EXCEPT ![c] = d], d.state = "none",
           UNCHANGED <<object, temporary, row>>
    PROVE  CallInv'
  <1> DEFINE failed == [NoCall EXCEPT !.step = "failed"]
             answered(p) == [NoCall EXCEPT !.step = "answered", !.final = final, !.payload = p]
  <1>1. /\ temporary[c] \in FileStates
        /\ temporary' = [temporary EXCEPT ![c] = temporary[c]]
    BY Before
  <1>2. CASE code # Accepted
    <2>1. call' = [call EXCEPT ![c] = failed]
      BY <1>2 DEF End, Set, Outcome
    <2>2. failed \in Calls /\ failed.step = "failed" /\ failed.payload = Nothing
      BY DEF NoCall, Calls, CallSteps, Routes
    <2> HIDE DEF failed
    <2> QED
      BY <1>1, <2>1, <2>2, CallUpdate
  <1>3. CASE code = Accepted
    <2>1. PICK p \in Payloads : call' = [call EXCEPT ![c] = answered(p)]
      BY <1>3 DEF End, Set, Outcome, RawPayload
    <2>2. /\ answered(p) \in Calls /\ answered(p).step = "answered"
          /\ answered(p).final = final /\ answered(p).payload # Nothing
      BY ModelCallAssumption DEF NoCall, Calls, CallSteps, Routes
    <2>3. answered(p).payload # Nothing => answered(p).final
      BY <1>3, <2>2
    <2> HIDE DEF answered
    <2> QED
      BY <1>1, <2>1, <2>2, <2>3, CallUpdate
  <1> QED
    BY <1>2, <1>3

LEMMA FinalTypes ==
    /\ \A a : OpenAIFinal(a) \in BOOLEAN
    /\ \A a \in DeepSeekAnswers : DeepSeekFinal(a) \in BOOLEAN
    /\ \A e, s, f : SessionFinal(e, s, f) \in BOOLEAN
  BY DEF OpenAIFinal, DeepSeekFinal, DeepSeekAnswers, SessionFinal

(* Every outcome an HTTP adapter comes to is a code with a verdict, accepted only if final. *)
LEMMA HttpOutcomesSound ==
    ASSUME NEW o \in HttpOutcomes \cup OpenAIOutcomes \cup DeepSeekOutcomes
    PROVE  o = Outcome(o.code, o.final) /\ o.final \in BOOLEAN /\ (o.code = Accepted => o.final)
  <1>1. CASE o \in HttpOutcomes
    <2>1. PICK code \in HttpFaults \cup {HttpCode(s) : s \in HttpStatuses} :
              o = Outcome(code, FALSE)
      BY <1>1 DEF HttpOutcomes
    <2>2. \A s \in HttpStatuses : HttpCode(s) # Accepted
      BY DEF HttpStatuses, HttpCode, Accepted
    <2>3. code # Accepted
      BY <2>1, <2>2 DEF HttpFaults, Accepted
    <2> QED
      BY <2>1, <2>3 DEF Outcome
  <1>2. CASE o \in OpenAIOutcomes
    <2>1. PICK a \in OpenAIAnswers(MaxItems) : o = Outcome(OpenAICode(a), OpenAIFinal(a))
      BY <1>2 DEF OpenAIOutcomes
    <2>2. OpenAIFinal(a) \in BOOLEAN /\ (OpenAICode(a) = Accepted => OpenAIFinal(a))
      BY OpenAIAccepts, FinalTypes
    <2> QED
      BY <2>1, <2>2 DEF Outcome
  <1>3. CASE o \in DeepSeekOutcomes
    <2>1. PICK a \in DeepSeekAnswers : o = Outcome(DeepSeekCode(a), DeepSeekFinal(a))
      BY <1>3 DEF DeepSeekOutcomes
    <2>2. DeepSeekFinal(a) \in BOOLEAN /\ (DeepSeekCode(a) = Accepted => DeepSeekFinal(a))
      BY DeepSeekAccepts, FinalTypes
    <2> QED
      BY <2>1, <2>2 DEF Outcome
  <1> QED
    BY <1>1, <1>2, <1>3

(* A step of c that changes its call only, where no process runs before or after. *)
LEMMA CallAlone ==
    ASSUME CallInv, NEW c \in Callers, child[c].state = "none",
           NEW k \in Calls, call' = [call EXCEPT ![c] = k],
           NEW f \in FileStates, temporary' = [temporary EXCEPT ![c] = f],
           UNCHANGED <<child, object, row>>,
           k.step \notin {"exec", "rename"}, k.payload # Nothing => k.final,
           k.step \in {"answered", "write", "stat", "stored"} => k.payload # Nothing,
           k.step = "stored" => object[k.payload] = "whole"
    PROVE  CallInv'
  <1>1. child' = [child EXCEPT ![c] = child[c]] /\ child[c] \in Processes
    BY Before
  <1>2. child[c].state # "running"
    OBVIOUS
  <1> QED
    BY <1>1, <1>2, CallUpdate

LEMMA GenerateStep ==
    ASSUME CallInv, NEW c \in Callers, Generate(c)
    PROVE  CallInv'
  <1>1. PICK r \in RequestsMade, usable \in BOOLEAN :
            IF ConfigurationCode(r, usable) # Accepted
            THEN Set(c, [NoCall EXCEPT !.step = "failed"])
            ELSE Set(c, [NoCall EXCEPT
                     !.route = r.route,
                     !.step = IF r.route = "openai_codex_session" THEN "login" ELSE "http"])
    BY DEF Generate
  <1>2. call[c].step = "idle" /\ UNCHANGED <<child, object, temporary, row>>
    BY DEF Generate
  <1>3. /\ child[c].state = "none" /\ temporary[c] \in FileStates
        /\ temporary' = [temporary EXCEPT ![c] = temporary[c]]
    BY <1>2, Before
  <1>4. CASE ConfigurationCode(r, usable) # Accepted
    <2> DEFINE k == [NoCall EXCEPT !.step = "failed"]
    <2>1. call' = [call EXCEPT ![c] = k]
      BY <1>1, <1>4 DEF Set
    <2>2. k \in Calls /\ k.step = "failed" /\ k.payload = Nothing
      BY DEF NoCall, Calls, CallSteps, Routes
    <2> HIDE DEF k
    <2> QED
      BY <1>2, <1>3, <2>1, <2>2, CallAlone
  <1>5. CASE ConfigurationCode(r, usable) = Accepted
    <2> DEFINE s == IF r.route = "openai_codex_session" THEN "login" ELSE "http"
               k == [NoCall EXCEPT !.route = r.route, !.step = s]
    <2>1. call' = [call EXCEPT ![c] = k]
      BY <1>1, <1>5 DEF Set
    <2>2. r.route \in Routes
      BY ModelCallAssumption DEF Requests
    <2>3. k \in Calls /\ k.step \in {"login", "http"} /\ k.payload = Nothing
      BY <2>2 DEF NoCall, Calls, CallSteps
    <2>4. k.step \notin {"exec", "rename", "answered", "write", "stat", "stored"}
      BY <2>3
    <2> HIDE DEF k
    <2> QED
      BY <1>2, <1>3, <2>1, <2>3, <2>4, CallAlone
  <1> QED
    BY <1>4, <1>5

LEMMA ReceiveHttpStep ==
    ASSUME CallInv, NEW c \in Callers, ReceiveHttp(c)
    PROVE  CallInv'
  <1>1. PICK o \in HttpOutcomes \cup OpenAIOutcomes \cup DeepSeekOutcomes : End(c, o)
    BY DEF ReceiveHttp
  <1>2. o = Outcome(o.code, o.final) /\ o.final \in BOOLEAN /\ (o.code = Accepted => o.final)
    BY HttpOutcomesSound
  <1>3. call[c].step = "http" /\ UNCHANGED <<child, object, temporary, row>>
    BY DEF ReceiveHttp
  <1>4. child[c].state = "none" /\ child[c] \in Processes
        /\ child' = [child EXCEPT ![c] = child[c]]
    BY <1>3, Before
  <1>5. End(c, Outcome(o.code, o.final))
    BY <1>1, <1>2
  <1> QED
    BY <1>2, <1>3, <1>4, <1>5, EndStep

(* Where no process runs, a failure to start one ends the call. *)
LEMMA StartFailsStep ==
    ASSUME CallInv, NEW c \in Callers, child[c].state = "none", StartFails(c),
           UNCHANGED <<object, temporary, row>>
    PROVE  CallInv'
  <1>1. End(c, Outcome("CODEX_CLI_NOT_FOUND", FALSE)) /\ "CODEX_CLI_NOT_FOUND" # Accepted
    BY DEF StartFails, Accepted
  <1>2. child[c] \in Processes /\ child' = [child EXCEPT ![c] = child[c]]
    BY Before DEF StartFails
  <1> QED
    BY <1>1, <1>2, EndStep

(* A process that is started is waited for, the session's in its directory. *)
LEMMA StartProcessStep ==
    ASSUME CallInv, NEW c \in Callers, NEW step \in {"checking", "exec"},
           NEW directory \in BOOLEAN, step = "exec" => directory,
           StartProcess(c, step, directory), UNCHANGED <<object, temporary, row>>
    PROVE  CallInv'
  <1> DEFINE k == [call[c] EXCEPT !.step = step, !.directory = directory]
             d == [NoProcess EXCEPT !.state = "running"]
  <1>1. /\ k \in Calls /\ k.step = step /\ k.directory = directory
        /\ k.payload = call[c].payload /\ k.final = call[c].final
    BY Before DEF Calls, CallSteps
  <1>2. d \in Processes
    BY EmptyTypes DEF Processes, ProcessStates
  <1>3. call' = [call EXCEPT ![c] = k] /\ child' = [child EXCEPT ![c] = d]
    BY DEF StartProcess, Set
  <1>4. temporary' = [temporary EXCEPT ![c] = temporary[c]] /\ temporary[c] \in FileStates
    BY Before
  <1>5. k.payload # Nothing => k.final
    BY <1>1, Before
  <1> HIDE DEF k, d
  <1> QED
    BY <1>1, <1>2, <1>3, <1>4, <1>5, CallUpdate

LEMMA RequireLoginStep ==
    ASSUME CallInv, NEW c \in Callers, RequireLogin(c)
    PROVE  CallInv'
  <1>1. child[c].state = "none"
    BY Before DEF RequireLogin
  <1> QED
    BY <1>1, StartFailsStep, StartProcessStep DEF RequireLogin

LEMMA StartSessionStep ==
    ASSUME CallInv, NEW c \in Callers, StartSession(c)
    PROVE  CallInv'
  <1>1. child[c].state = "none"
    BY Before DEF StartSession
  <1> QED
    BY <1>1, StartFailsStep, StartProcessStep DEF StartSession

LEMMA ReceiveLoginStep ==
    ASSUME CallInv, NEW c \in Callers, ReceiveLogin(c)
    PROVE  CallInv'
  <1>1. child' = [child EXCEPT ![c] = NoProcess] /\ UNCHANGED <<object, temporary, row>>
    BY DEF ReceiveLogin
  <1>2. CASE End(c, Outcome("CHATGPT_LOGIN_REQUIRED", FALSE))
    <2>1. "CHATGPT_LOGIN_REQUIRED" # Accepted
      BY DEF Accepted
    <2> QED
      BY <1>1, <1>2, <2>1, EmptyTypes, EndStep
  <1>3. CASE Set(c, [call[c] EXCEPT !.step = "start"])
    <2> DEFINE k == [call[c] EXCEPT !.step = "start"]
    <2>1. /\ k \in Calls /\ k.step = "start"
          /\ k.payload = call[c].payload /\ k.final = call[c].final
      BY Before DEF Calls, CallSteps
    <2>2. call' = [call EXCEPT ![c] = k]
      BY <1>3 DEF Set
    <2>3. temporary' = [temporary EXCEPT ![c] = temporary[c]] /\ temporary[c] \in FileStates
      BY <1>1, Before
    <2>4. k.payload # Nothing => k.final
      BY <2>1, Before
    <2> HIDE DEF k
    <2> QED
      BY <1>1, <2>1, <2>2, <2>3, <2>4, EmptyTypes, CallUpdate
  <1> QED
    BY <1>2, <1>3 DEF ReceiveLogin

(* The process acts alone; it never starts running again. *)
LEMMA ChildRunsStep ==
    ASSUME CallInv, NEW c \in Callers, ChildRuns(c)
    PROVE  CallInv'
  <1>1. child[c].state = "running" /\ UNCHANGED <<call, object, temporary, row>>
    BY DEF ChildRuns
  <1>2. call[c].step \in {"checking", "exec", "dead"} /\ call[c] \in Calls /\ child[c] \in Processes
    BY <1>1, Before
  <1>3. PICK d \in Processes : child' = [child EXCEPT ![c] = d]
    <2>1. CASE child' = [child EXCEPT ![c].state = "exited"]
      <3>1. [child[c] EXCEPT !.state = "exited"] \in Processes
        BY <1>2 DEF Processes, ProcessStates
      <3> QED
        BY <2>1, <3>1
    <2>2. CASE \E e \in Events : child' = [child EXCEPT ![c].stdout = Append(@, e)]
      <3>1. PICK e \in Events : child' = [child EXCEPT ![c].stdout = Append(@, e)]
        BY <2>2
      <3>2. Append(child[c].stdout, e) \in Seq(Events)
        BY <1>2 DEF Processes
      <3>3. [child[c] EXCEPT !.stdout = Append(@, e)] \in Processes
        BY <1>2, <3>2 DEF Processes
      <3> QED
        BY <3>1, <3>3
    <2>3. CASE \E f \in Files \ {"missing"} : child' = [child EXCEPT ![c].file = f]
      <3>1. PICK f \in Files : child' = [child EXCEPT ![c].file = f]
        BY <2>3
      <3>2. [child[c] EXCEPT !.file = f] \in Processes
        BY <1>2 DEF Processes
      <3> QED
        BY <3>1, <3>2
    <2> QED
      BY <2>1, <2>2, <2>3 DEF ChildRuns
  <1>4. /\ call' = [call EXCEPT ![c] = call[c]]
        /\ temporary' = [temporary EXCEPT ![c] = temporary[c]] /\ temporary[c] \in FileStates
        /\ call[c].payload # Nothing => call[c].final
        /\ call[c].step = "exec" => call[c].directory
    BY <1>1, Before
  <1> QED
    BY <1>1, <1>2, <1>3, <1>4, CallUpdate

LEMMA ReceiveSessionStep ==
    ASSUME CallInv, NEW c \in Callers, ReceiveSession(c)
    PROVE  CallInv'
  <1>1. PICK exit \in {0, 1}, printed \in SUBSET Phrases :
            End(c, Outcome(SessionCode(exit, printed, child[c].stdout, child[c].file),
                           SessionFinal(exit, child[c].stdout, child[c].file)))
    BY DEF ReceiveSession
  <1>2. child[c].stdout \in Seq(Events) /\ child[c].file \in Files
    BY Before DEF Processes
  <1>3. child' = [child EXCEPT ![c] = NoProcess] /\ UNCHANGED <<object, temporary, row>>
    BY DEF ReceiveSession
  <1> DEFINE code == SessionCode(exit, printed, child[c].stdout, child[c].file)
             final == SessionFinal(exit, child[c].stdout, child[c].file)
  <1>4. final \in BOOLEAN /\ (code = Accepted => final)
    BY <1>2, SessionAccepts, FinalTypes
  <1>5. End(c, Outcome(code, final))
    BY <1>1
  <1> HIDE DEF code, final
  <1> QED
    BY <1>3, <1>4, <1>5, EmptyTypes, EndStep

(* The timeout kills the process before anybody waits for it. *)
LEMMA TimeOutStep ==
    ASSUME CallInv, NEW c \in Callers, TimeOut(c)
    PROVE  CallInv'
  <1> DEFINE k == [call[c] EXCEPT !.step = "kill"]
             d == [NoProcess EXCEPT !.state = Killed(c)]
  <1>1. /\ call' = [call EXCEPT ![c] = k] /\ child' = [child EXCEPT ![c] = d]
        /\ UNCHANGED <<object, temporary, row>>
    BY DEF TimeOut, Set
  <1>2. k \in Calls /\ k.step = "kill" /\ k.payload = call[c].payload /\ k.final = call[c].final
    BY Before DEF Calls, CallSteps
  <1>3. Killed(c) \in ProcessStates /\ Killed(c) # "running"
    BY Before DEF Killed, Processes, ProcessStates
  <1>4. d \in Processes /\ d.state # "running"
    BY <1>3, EmptyTypes DEF Processes
  <1>5. k.payload # Nothing => k.final
    BY <1>2, Before
  <1>6. temporary' = [temporary EXCEPT ![c] = temporary[c]] /\ temporary[c] \in FileStates
    BY <1>1, Before
  <1> HIDE DEF k, d
  <1> QED
    BY <1>1, <1>2, <1>4, <1>5, <1>6, CallUpdate

LEMMA ReapChildStep ==
    ASSUME CallInv, NEW c \in Callers, ReapChild(c)
    PROVE  CallInv'
  <1> DEFINE code == IF call[c].directory THEN "TIMEOUT" ELSE "CODEX_AUTH_CHECK_TIMEOUT"
  <1>1. /\ call[c].step = "kill" /\ End(c, Outcome(code, FALSE))
        /\ UNCHANGED <<object, temporary, row>>
    BY DEF ReapChild
  <1>2. child' = [child EXCEPT ![c] = NoProcess]
    BY <1>1, Before DEF ReapChild
  <1>3. code # Accepted
    BY DEF Accepted
  <1> HIDE DEF code
  <1> QED
    BY <1>1, <1>2, <1>3, EmptyTypes, EndStep

LEMMA KillTooLateStep ==
    ASSUME CallInv, NEW c \in Callers, KillTooLate(c)
    PROVE  CallInv'
  <1>1. "CODEX_CLI_NOT_FOUND" # Accepted
    BY DEF Accepted
  <1> QED
    BY <1>1, EmptyTypes, EndStep DEF KillTooLate

(* put_json before the rename: the caller's own temporary file only. *)
LEMMA CheckObjectStep ==
    ASSUME CallInv, NEW c \in Callers, CheckObject(c)
    PROVE  CallInv'
  <1>1. call[c].step = "answered" /\ UNCHANGED <<child, object, row>>
    BY DEF CheckObject
  <1>2. /\ child[c].state = "none" /\ temporary[c] \in FileStates
        /\ call[c].payload \in Payloads /\ call[c].payload # Nothing /\ call[c].final
    BY <1>1, ModelCallAssumption, Before
  <1>3. CASE /\ Set(c, [call[c] EXCEPT !.step = "stat"]) /\ UNCHANGED temporary
    <2> DEFINE k == [call[c] EXCEPT !.step = "stat"]
    <2>1. k \in Calls /\ k.step = "stat" /\ k.payload = call[c].payload /\ k.final = call[c].final
      BY Before DEF Calls, CallSteps
    <2>2. /\ call' = [call EXCEPT ![c] = k]
          /\ temporary' = [temporary EXCEPT ![c] = temporary[c]]
      BY <1>3, Before DEF Set
    <2> HIDE DEF k
    <2> QED
      BY <1>1, <1>2, <2>1, <2>2, CallAlone
  <1>4. CASE /\ Set(c, [call[c] EXCEPT !.step = "write"])
             /\ temporary' = [temporary EXCEPT ![c] = "partial"]
    <2> DEFINE k == [call[c] EXCEPT !.step = "write"]
    <2>1. k \in Calls /\ k.step = "write" /\ k.payload = call[c].payload /\ k.final = call[c].final
      BY Before DEF Calls, CallSteps
    <2>2. call' = [call EXCEPT ![c] = k] /\ "partial" \in FileStates
      BY <1>4 DEF Set, FileStates
    <2> HIDE DEF k
    <2> QED
      BY <1>1, <1>2, <1>4, <2>1, <2>2, CallAlone
  <1> QED
    BY <1>3, <1>4 DEF CheckObject

LEMMA WriteTemporaryStep ==
    ASSUME CallInv, NEW c \in Callers, WriteTemporary(c)
    PROVE  CallInv'
  <1> DEFINE k == [call[c] EXCEPT !.step = "rename"]
  <1>1. /\ call[c].step = "write" /\ UNCHANGED <<child, object, row>>
        /\ call' = [call EXCEPT ![c] = k]
        /\ temporary' = [temporary EXCEPT ![c] = "whole"] /\ "whole" \in FileStates
    BY DEF WriteTemporary, Set, FileStates
  <1>2. k \in Calls /\ k.step = "rename" /\ k.payload = call[c].payload /\ k.final = call[c].final
    BY Before DEF Calls, CallSteps
  <1>3. /\ child[c].state = "none" /\ child[c] \in Processes
        /\ child' = [child EXCEPT ![c] = child[c]]
        /\ call[c].payload # Nothing /\ call[c].final
    BY <1>1, ModelCallAssumption, Before
  <1> HIDE DEF k
  <1> QED
    BY <1>1, <1>2, <1>3, CallUpdate

LEMMA WriteFailsStep ==
    ASSUME CallInv, NEW c \in Callers, WriteFails(c)
    PROVE  CallInv'
  <1> DEFINE k == [NoCall EXCEPT !.step = "dead"]
  <1>1. /\ call[c].step = "write" /\ UNCHANGED <<child, object, row>>
        /\ call' = [call EXCEPT ![c] = k]
        /\ temporary' = [temporary EXCEPT ![c] = "absent"] /\ "absent" \in FileStates
    BY DEF WriteFails, Set, FileStates
  <1>2. k \in Calls /\ k.step = "dead" /\ k.payload = Nothing
    BY DEF NoCall, Calls, CallSteps, Routes
  <1>3. child[c].state = "none"
    BY <1>1, Before
  <1> HIDE DEF k
  <1> QED
    BY <1>1, <1>2, <1>3, CallAlone

(* The rename puts a whole file at the digest's path, whatever was there. *)
LEMMA RenameTemporaryStep ==
    ASSUME CallInv, NEW c \in Callers, RenameTemporary(c)
    PROVE  CallInv'
  <1> DEFINE k == [call[c] EXCEPT !.step = "stat"]
             p == call[c].payload
  <1>1. /\ call[c].step = "rename" /\ UNCHANGED <<child, row>>
        /\ call' = [call EXCEPT ![c] = k]
        /\ object' = [object EXCEPT ![p] = temporary[c]]
        /\ temporary' = [temporary EXCEPT ![c] = "absent"]
    BY DEF RenameTemporary, Set
  <1>2. p \in Payloads /\ p # Nothing /\ call[c].final /\ child[c].state = "none"
    BY <1>1, ModelCallAssumption, Before
  <1>3. k \in Calls /\ k.step = "stat" /\ k.payload = p /\ k.final
    BY <1>2, Before DEF Calls, CallSteps
  <1>4. temporary[c] = "whole"
    BY <1>1 DEF CallInv, StoreFollowsCall
  <1>5. object'[p] = "whole" /\ \A q \in Payloads : object'[q] \in {object[q], "whole"}
    BY <1>1, <1>2, <1>4 DEF CallInv, CallTypeOK
  <1> HIDE DEF p, k
  <1>6. /\ call'[c] = k
        /\ \A b \in Callers : b # c => call'[b] = call[b] /\ temporary'[b] = temporary[b]
    BY <1>1 DEF CallInv, CallTypeOK
  <1>7. CallTypeOK'
    <2>1. /\ call' \in [Callers -> Calls] /\ child' \in [Callers -> Processes]
          /\ row' \in [Callers -> Payloads \cup {Nothing}]
      BY <1>1, <1>3 DEF CallInv, CallTypeOK
    <2>2. object' \in [Payloads -> FileStates] /\ temporary' \in [Callers -> FileStates]
      BY <1>1, <1>4 DEF CallInv, CallTypeOK, FileStates
    <2>3. \A b \in Callers : call'[b].step \in {"answered", "write", "rename", "stat", "stored"}
                                 => call'[b].payload # Nothing
      BY <1>2, <1>3, <1>6 DEF CallInv, CallTypeOK
    <2> QED
      BY <2>1, <2>2, <2>3 DEF CallTypeOK
  <1>8. AcceptedAnswerIsFinal'
    BY <1>2, <1>3, <1>6 DEF CallInv, AcceptedAnswerIsFinal
  <1>9. ProcessFollowsCall'
    BY <1>1, <1>2, <1>3, <1>6 DEF CallInv, ProcessFollowsCall
  <1>10. StoreFollowsCall'
    <2> SUFFICES ASSUME NEW b \in Callers
                 PROVE  /\ call'[b].step = "rename" => temporary'[b] = "whole"
                        /\ call'[b].step = "stored" => object'[call'[b].payload] = "whole"
      BY DEF StoreFollowsCall
    <2>1. CASE b = c
      BY <1>3, <1>6, <2>1
    <2>2. CASE b # c
      <3>1. call'[b] = call[b] /\ temporary'[b] = temporary[b]
        BY <1>6, <2>2
      <3>2. call[b].step = "stored" => call[b].payload \in Payloads
        BY Before
      <3> QED
        BY <1>5, <3>1, <3>2 DEF CallInv, StoreFollowsCall
    <2> QED
      BY <2>1, <2>2
  <1>11. RowsReferToWholeObjects'
    <2>1. \A q \in Payloads : object'[q] # "partial"
      BY <1>5 DEF CallInv, RowsReferToWholeObjects
    <2>2. ASSUME NEW b \in Callers, row'[b] # Nothing PROVE object'[row'[b]] = "whole"
      <3>1. row'[b] = row[b] /\ row[b] \in Payloads
        BY <1>1, <2>2 DEF CallInv, CallTypeOK
      <3>2. object[row[b]] = "whole"
        BY <2>2, <3>1 DEF CallInv, RowsReferToWholeObjects
      <3> QED
        BY <1>5, <3>1, <3>2
    <2> QED
      BY <2>1, <2>2 DEF RowsReferToWholeObjects
  <1> QED
    BY <1>7, <1>8, <1>9, <1>10, <1>11 DEF CallInv

(* A file that is there is whole. *)
LEMMA StatObjectStep ==
    ASSUME CallInv, NEW c \in Callers, StatObject(c)
    PROVE  CallInv'
  <1> DEFINE k == [call[c] EXCEPT !.step = "stored"]
  <1>1. /\ call[c].step = "stat" /\ UNCHANGED <<child, object, temporary, row>>
        /\ object[call[c].payload] # "absent"
        /\ call' = [call EXCEPT ![c] = k]
    BY DEF StatObject, Set
  <1>2. k \in Calls /\ k.step = "stored" /\ k.payload = call[c].payload /\ k.final = call[c].final
    BY Before DEF Calls, CallSteps
  <1>3. /\ child[c].state = "none" /\ temporary[c] \in FileStates
        /\ temporary' = [temporary EXCEPT ![c] = temporary[c]]
        /\ call[c].payload \in Payloads /\ call[c].payload # Nothing /\ call[c].final
    BY <1>1, ModelCallAssumption, Before
  <1>4. object[call[c].payload] = "whole"
    BY <1>1, <1>3 DEF CallInv, CallTypeOK, RowsReferToWholeObjects, FileStates
  <1> HIDE DEF k
  <1> QED
    BY <1>1, <1>2, <1>3, <1>4, CallAlone

LEMMA CommitRowStep ==
    ASSUME CallInv, NEW c \in Callers, CommitRow(c)
    PROVE  CallInv'
  <1> DEFINE k == [call[c] EXCEPT !.step = "archived"]
  <1>1. /\ call[c].step = "stored" /\ UNCHANGED <<child, object, temporary>>
        /\ row' = [row EXCEPT ![c] = call[c].payload]
        /\ call' = [call EXCEPT ![c] = k]
    BY DEF CommitRow, Set, ArchivedFrom
  <1>2. call[c].payload \in Payloads /\ call[c].final /\ child[c].state = "none"
    BY <1>1, ModelCallAssumption, Before
  <1>3. k \in Calls /\ k.step = "archived" /\ k.payload = call[c].payload /\ k.final
    BY <1>2, Before DEF Calls, CallSteps
  <1>4. object[call[c].payload] = "whole"
    BY <1>1 DEF CallInv, StoreFollowsCall
  <1> HIDE DEF k
  <1>5. /\ call'[c] = k /\ row'[c] = call[c].payload
        /\ \A b \in Callers : b # c => call'[b] = call[b] /\ row'[b] = row[b]
    BY <1>1 DEF CallInv, CallTypeOK
  <1>6. CallTypeOK'
    <2>1. /\ call' \in [Callers -> Calls] /\ child' \in [Callers -> Processes]
          /\ object' \in [Payloads -> FileStates] /\ temporary' \in [Callers -> FileStates]
      BY <1>1, <1>3 DEF CallInv, CallTypeOK
    <2>2. row' \in [Callers -> Payloads \cup {Nothing}]
      BY <1>1, <1>2 DEF CallInv, CallTypeOK
    <2>3. \A b \in Callers : call'[b].step \in {"answered", "write", "rename", "stat", "stored"}
                                 => call'[b].payload # Nothing
      BY <1>3, <1>5 DEF CallInv, CallTypeOK
    <2> QED
      BY <2>1, <2>2, <2>3 DEF CallTypeOK
  <1>7. AcceptedAnswerIsFinal'
    BY <1>3, <1>5 DEF CallInv, AcceptedAnswerIsFinal
  <1>8. ProcessFollowsCall'
    BY <1>1, <1>2, <1>3, <1>5 DEF CallInv, ProcessFollowsCall
  <1>9. StoreFollowsCall'
    BY <1>1, <1>3, <1>5 DEF CallInv, StoreFollowsCall
  <1>10. RowsReferToWholeObjects'
    BY <1>1, <1>4, <1>5 DEF CallInv, RowsReferToWholeObjects
  <1> QED
    BY <1>6, <1>7, <1>8, <1>9, <1>10 DEF CallInv

(* A dead worker's codex process may run on, and its temporary file stays. *)
LEMMA CrashStep ==
    ASSUME CallInv, NEW c \in Callers, Crash(c)
    PROVE  CallInv'
  <1> DEFINE k == [NoCall EXCEPT !.step = "dead"]
             d == [NoProcess EXCEPT !.state = child[c].state]
  <1>1. /\ call' = [call EXCEPT ![c] = k] /\ child' = [child EXCEPT ![c] = d]
        /\ UNCHANGED <<object, temporary, row>>
    BY DEF Crash, Set
  <1>2. k \in Calls /\ k.step = "dead" /\ k.payload = Nothing
    BY DEF NoCall, Calls, CallSteps, Routes
  <1>3. d \in Processes
    BY Before, EmptyTypes DEF Processes
  <1>4. temporary' = [temporary EXCEPT ![c] = temporary[c]] /\ temporary[c] \in FileStates
    BY <1>1, Before
  <1> HIDE DEF k, d
  <1> QED
    BY <1>1, <1>2, <1>3, <1>4, CallUpdate

LEMMA CallNextInv == CallInv /\ [CallNext]_vars => CallInv'
  <1> SUFFICES ASSUME CallInv, [CallNext]_vars PROVE CallInv'
    OBVIOUS
  <1>1. CASE UNCHANGED vars
    BY <1>1 DEF vars, CallInv, CallTypeOK, AcceptedAnswerIsFinal, ProcessFollowsCall,
                StoreFollowsCall, RowsReferToWholeObjects
  <1>2. CASE CallNext
    <2>1. PICK c \in Callers : Generate(c) \/ CallerStep(c) \/ ChildRuns(c) \/ Crash(c)
      BY <1>2 DEF CallNext
    <2>2. CASE Generate(c)
      BY <2>2, GenerateStep
    <2>3. CASE ReceiveHttp(c)
      BY <2>3, ReceiveHttpStep
    <2>4. CASE RequireLogin(c)
      BY <2>4, RequireLoginStep
    <2>5. CASE ReceiveSession(c)
      BY <2>5, ReceiveSessionStep
    <2>6. CASE TimeOut(c)
      BY <2>6, TimeOutStep
    <2>7. CASE ReapChild(c)
      BY <2>7, ReapChildStep
    <2>8. CASE CheckObject(c)
      BY <2>8, CheckObjectStep
    <2>9. CASE WriteTemporary(c)
      BY <2>9, WriteTemporaryStep
    <2>10. CASE WriteFails(c)
      BY <2>10, WriteFailsStep
    <2>11. CASE RenameTemporary(c)
      BY <2>11, RenameTemporaryStep
    <2>12. CASE StatObject(c)
      BY <2>12, StatObjectStep
    <2>13. CASE CommitRow(c)
      BY <2>13, CommitRowStep
    <2>14. CASE ChildRuns(c)
      BY <2>14, ChildRunsStep
    <2>15. CASE Crash(c)
      BY <2>15, CrashStep
    <2>16. CASE ReceiveLogin(c)
      BY <2>16, ReceiveLoginStep
    <2>17. CASE StartSession(c)
      BY <2>17, StartSessionStep
    <2>18. CASE KillTooLate(c)
      BY <2>18, KillTooLateStep
    <2> QED
      BY <2>1, <2>2, <2>3, <2>4, <2>5, <2>6, <2>7, <2>8, <2>9, <2>10, <2>11, <2>12, <2>13,
         <2>14, <2>15, <2>16, <2>17, <2>18 DEF CallerStep
  <1> QED
    BY <1>1, <1>2

LEMMA CallInvariant == CallSpec => []CallInv
  BY CallInitInv, CallNextInv, PTL DEF CallSpec

-------------------------------------------------------------------------------
(* The theorems *)

(* Calls, processes, files and rows keep their types. *)
THEOREM CallsAreTyped == CallSpec => []CallTypeOK
  <1>1. CallInv => CallTypeOK
    BY DEF CallInv
  <1> QED
    BY <1>1, CallInvariant, PTL

(* However many items, events and callers there are, a text is accepted only from a final  *)
(* answer (providers/openai.py:85-171, deepseek.py:95-159, codex_session.py:354-421).      *)
THEOREM AcceptsOnlyFinalAnswers == CallSpec => []AcceptedAnswerIsFinal
  <1>1. CallInv => AcceptedAnswerIsFinal
    BY DEF CallInv
  <1> QED
    BY <1>1, CallInvariant, PTL

(* The timeout, the login check and every answer leave no codex process behind             *)
(* (codex_session.py:129, :446-449).                                                        *)
THEOREM LeavesNoProcess == CallSpec => []EndedCallLeavesNoProcess
  <1>1. CallInv => EndedCallLeavesNoProcess
    BY DEF CallInv, ProcessFollowsCall, EndedCallLeavesNoProcess
  <1> QED
    BY <1>1, CallInvariant, PTL

(* Any number of workers that store the same payloads and die anywhere leave no committed  *)
(* row without its whole file (storage/objects.py:34-46).                                   *)
THEOREM RowsHaveWholeObjects == CallSpec => []RowsReferToWholeObjects
  <1>1. CallInv => RowsReferToWholeObjects
    BY DEF CallInv
  <1> QED
    BY <1>1, CallInvariant, PTL
===============================================================================
