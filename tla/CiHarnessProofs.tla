-------------------------- MODULE CiHarnessProofs --------------------------
(***************************************************************************)
(* What holds of every leg of the integration job, whatever the tests, the *)
(* transport and the patience of the boot loops, and whoever dies or       *)
(* cancels it when: TLAPS proofs about CiHarness.                          *)
(***************************************************************************)
EXTENDS CiHarness, TLAPS

Booting == {"boot", "note", "worker_wait"}
Located == {"locate", "suite", "judge"} \cup Booting
Testing == {"suite", "judge"}
BeforeSuite == Phases \ (Testing \cup CleaningUp)

(* The variables are exported before anything is booted or tested.         *)
ExportedFirst == /\ phase \in Located => exported
                 /\ worker # "none" => routed

(* From the boot on, the socket's name leads to this script's worker.      *)
NoSquatter == transport = "unix" /\ phase \in Booting \cup Testing => ~squatter

(* Nothing has run before the suite, and what passed has asked the mock    *)
(* through this script's worker.                                           *)
TestsAsk == /\ phase \in BeforeSuite => result = [t \in Tests |-> "pending"]
            /\ reached \subseteq {<<OwnWorker, "mock">>}
            /\ \A t \in Tests : result[t] = "pass" => reached # {}

(* Once the script is on its way out its status is its judgement.          *)
VerdictIsJust == /\ phase \in CleaningUp =>
                      /\ verdict = 0 => Outcome("pass") = Tests
                      /\ Outcome("pass") = Tests => verdict \in {0, Cancelled}
                 /\ phase = "ended" => rc = verdict

(* The worker whose pid is noted goes from its boot to its end.            *)
WorkerGoes == /\ phase \in BeforeTrap => known = {}
              /\ phase = "note" => worker # "none"
              /\ "worker" \in known => worker # "none"
              /\ worker = "stopping" => "worker" \in known /\ phase \in {"reap", "ended"}
              /\ phase = "reap" /\ "worker" \in known => worker \in {"stopping", "dead"}
              /\ phase \in {"kill_mock", "remove"} /\ "worker" \in known => worker = "dead"
              /\ phase = "remove" /\ "worker" \in known => named \cap files = {}
              /\ WorkerReaped

IInv == TypeOK /\ ExportedFirst /\ NoSquatter /\ TestsAsk /\ VerdictIsJust /\ WorkerGoes

(* An exit that follows from the state of the suite.                       *)
LEMMA ExitKeepsIInv ==
  ASSUME IInv, NEW status \in Nat, Exit(status), phase \notin CleaningUp,
         status = 0 => Outcome("pass") = Tests,
         Outcome("pass") = Tests => status \in {0, Cancelled}
  PROVE  IInv'
<1>1. TypeOK'
  BY DEF IInv, TypeOK, Exit, Phases, CleaningUp, InTrap, BeforeTrap, processes, suite
<1>2. ExportedFirst' /\ NoSquatter'
  BY DEF IInv, ExportedFirst, NoSquatter, Exit, Located, Booting, Testing, BeforeTrap,
         processes
<1>3. TestsAsk'
  BY DEF IInv, TestsAsk, Exit, OwnWorker, BeforeSuite, Testing, CleaningUp, InTrap, BeforeTrap,
         processes, suite
<1>4. VerdictIsJust'
  BY DEF IInv, VerdictIsJust, Exit, CleaningUp, InTrap, BeforeTrap, Outcome, suite
<1>5. WorkerGoes'
  <2>1. phase \in BeforeTrap => "worker" \notin known
    BY DEF IInv, WorkerGoes, WorkerReaped
  <2> QED BY <2>1 DEF IInv, WorkerGoes, WorkerReaped, Exit, BeforeTrap, CleaningUp,
             InTrap, processes
<1> QED BY <1>1, <1>2, <1>3, <1>4, <1>5 DEF IInv

(* The tests of a leg that has not begun have passed nowhere.              *)
LEMMA NothingPassed ==
  ASSUME IInv, phase \in BeforeSuite
  PROVE  Outcome("pass") # Tests
<1>1. \A t \in Tests : result[t] = "pending"
  BY DEF IInv, TestsAsk
<1> QED BY <1>1, HarnessAssumption DEF Outcome

(* Booting.                                                                *)
LEMMA BootKeepsIInv == IInv /\ Boot => IInv'
<1> SUFFICES ASSUME IInv, Boot PROVE IInv'
  OBVIOUS
<1> USE DEF script, processes, suite, Phases, BeforeTrap, CleaningUp, Located, Booting,
            Testing, BeforeSuite
<1>1. ASSUME NEW status \in Nat, status # 0, Exit(status), phase \in BeforeSuite
      PROVE  IInv'
  BY <1>1, NothingPassed, ExitKeepsIInv
<1>2. CASE StageFails \/ LocateOther \/ WorkerGone
  BY <1>1, <1>2 DEF StageFails, LocateOther, WorkerGone, InTrap
<1>3. ASSUME Poll, phase \in {"mock_wait", "worker_wait"}
      PROVE  IInv'
  <2>1. polls' \in 0 .. MaxPolls
    BY <1>3, HarnessAssumption DEF IInv, TypeOK, Poll
  <2> QED BY <1>3, <2>1 DEF IInv, TypeOK, ExportedFirst, NoSquatter, TestsAsk, VerdictIsJust,
                  WorkerGoes, WorkerReaped, Poll, Outcome, OwnWorker
<1>4. CASE MockSilent \/ WorkerSilent
  BY <1>1, <1>3, <1>4 DEF MockSilent, WorkerSilent, InTrap
<1>5. CASE Stage \/ StartMock \/ SetTrap \/ MockReports \/ LocateSubprocess
  <2>1. TypeOK'
    <3>1. CASE Stage \/ SetTrap \/ LocateSubprocess
      BY <3>1 DEF IInv, TypeOK, Stage, SetTrap, LocateSubprocess
    <3>2. CASE StartMock
      BY <3>2 DEF IInv, TypeOK, StartMock
    <3>3. CASE MockReports
      BY <3>3, HarnessAssumption DEF IInv, TypeOK, MockReports
    <3> QED BY <1>5, <3>1, <3>2, <3>3
  <2>3. ExportedFirst' /\ NoSquatter'
    BY <1>5 DEF IInv, ExportedFirst, NoSquatter, Stage, StartMock, SetTrap, MockReports,
         LocateSubprocess
  <2>2. TestsAsk' /\ VerdictIsJust' /\ WorkerGoes'
    BY <1>5 DEF IInv, TestsAsk, VerdictIsJust, WorkerGoes, WorkerReaped, InTrap, Outcome, OwnWorker,
         Stage, StartMock, SetTrap, MockReports, LocateSubprocess
  <2> QED BY <2>1, <2>2, <2>3 DEF IInv
<1>6. CASE LocateHttp \/ LocateUnix
  <2>1. TypeOK'
    BY <1>6 DEF IInv, TypeOK, LocateHttp, LocateUnix, SocketRemoved
  <2>3. ExportedFirst' /\ NoSquatter'
    BY <1>6 DEF IInv, ExportedFirst, NoSquatter, LocateHttp, LocateUnix, SocketRemoved
  <2>2. TestsAsk' /\ VerdictIsJust' /\ WorkerGoes'
    BY <1>6 DEF IInv, TestsAsk, VerdictIsJust, WorkerGoes, WorkerReaped, InTrap, Outcome, OwnWorker,
         LocateHttp, LocateUnix
  <2> QED BY <2>1, <2>2, <2>3 DEF IInv
<1>7. CASE BootWorker \/ NoteWorker \/ WorkerReports
  <2>1. TypeOK'
    BY <1>7 DEF IInv, TypeOK, BootWorker, NoteWorker, WorkerReports, Inherited
  <2>3. ExportedFirst' /\ NoSquatter'
    BY <1>7 DEF IInv, ExportedFirst, NoSquatter, BootWorker, NoteWorker, WorkerReports,
         Inherited
  <2>2. TestsAsk' /\ VerdictIsJust' /\ WorkerGoes'
    BY <1>7 DEF IInv, TestsAsk, VerdictIsJust, WorkerGoes, WorkerReaped, InTrap, Outcome, OwnWorker,
         BootWorker, NoteWorker, WorkerReports
  <2> QED BY <2>1, <2>2, <2>3 DEF IInv
<1> QED BY <1>2, <1>4, <1>5, <1>6, <1>7 DEF Boot

(* A test that passes has asked the mock, through the worker of this run.  *)
LEMMA RunTestKeepsIInv == ASSUME NEW t \in Tests, IInv, RunTest(t) PROVE IInv'
<1> USE DEF script, processes, suite, Phases, BeforeTrap, CleaningUp, Located, Booting,
            Testing, BeforeSuite
<1>1. /\ phase = "suite" /\ exported /\ UNCHANGED <<script, phase, polls, processes>>
  BY DEF IInv, ExportedFirst, RunTest
<1>2. ASSUME NEW w \in Serving
      PROVE  w = OwnWorker /\ AsksFor(w) = "mock"
  BY <1>1, <1>2 DEF IInv, NoSquatter, ExportedFirst, Serving, Workers, OwnWorker, AsksFor,
                    Inherited
<1>3. /\ result' \in [Tests -> {"pending", "pass", "fail", "skip"}]
      /\ reached' \subseteq {<<OwnWorker, "mock">>}
      /\ \A s \in Tests : result'[s] = "pass" => reached' # {}
  <2>1. CASE \E w \in Serving, outcome \in {"pass", "fail", "skip"} :
               /\ reached' = reached \cup {<<w, AsksFor(w)>>}
               /\ result' = [result EXCEPT ![t] = outcome]
    BY <1>2, <2>1 DEF IInv, TypeOK, TestsAsk
  <2>2. CASE \E outcome \in {"fail", "skip"} :
               /\ result' = [result EXCEPT ![t] = outcome]
               /\ UNCHANGED reached
    BY <2>2 DEF IInv, TypeOK, TestsAsk
  <2> QED BY <2>1, <2>2 DEF RunTest
<1>4. TypeOK'
  <2>1. reached' \subseteq Workers \X Services
    BY <1>3 DEF OwnWorker, Workers, Services
  <2>2. UNCHANGED <<transport, phase, polls, staged, exported, named, known, verdict, rc,
                    mock, worker, routed, files, squatter, cut>>
    BY <1>1 DEF RunTest
  <2> HIDE DEF Phases
  <2> QED BY <1>3, <2>1, <2>2 DEF IInv, TypeOK
<1>5. ExportedFirst' /\ NoSquatter' /\ TestsAsk' /\ VerdictIsJust' /\ WorkerGoes'
  BY <1>1, <1>3 DEF IInv, ExportedFirst, NoSquatter, TestsAsk, VerdictIsJust, WorkerGoes,
                    WorkerReaped, InTrap, OwnWorker
<1> QED BY <1>4, <1>5 DEF IInv

(* The judgement: green only if every test passed.                         *)
LEMMA JudgeKeepsIInv == IInv /\ (RunnerEnds \/ Judge) => IInv'
<1> SUFFICES ASSUME IInv, RunnerEnds \/ Judge PROVE IInv'
  OBVIOUS
<1> USE DEF script, processes, suite, Phases, BeforeTrap, CleaningUp, Located, Booting,
            Testing, BeforeSuite
<1>1. CASE RunnerEnds
  <2>1. TypeOK' /\ ExportedFirst' /\ NoSquatter'
    BY <1>1 DEF IInv, TypeOK, ExportedFirst, NoSquatter, RunnerEnds
  <2>2. TestsAsk' /\ VerdictIsJust' /\ WorkerGoes'
    BY <1>1 DEF IInv, TestsAsk, VerdictIsJust, WorkerGoes, WorkerReaped, InTrap,
                RunnerEnds, Outcome, OwnWorker
  <2> QED BY <2>1, <2>2 DEF IInv
<1>2. CASE Judge
  <2>1. PICK summary \in Summaries :
          \/ Status # 0 /\ Exit(Status)
          \/ summary # "passed" /\ Exit(1)
          \/ Status = 0 /\ summary = "passed" /\ Exit(0)
    BY <1>2 DEF Judge, Passes
  <2>2. phase = "judge" /\ phase \notin CleaningUp /\ Status \in {0, 1}
    BY <1>2 DEF Judge, Status, InTrap
  <2>3. Outcome("pass") = Tests => Status = 0
    BY DEF Outcome, Status
  <2>4. Outcome("pass") = Tests <=> summary = "passed"
    BY DEF Summaries
  <2> QED BY <2>1, <2>2, <2>3, <2>4, ExitKeepsIInv
<1> QED BY <1>1, <1>2

(* Cleaning up.                                                            *)
LEMMA CleanupKeepsIInv == IInv /\ Cleanup => IInv'
<1> SUFFICES ASSUME IInv, Cleanup PROVE IInv'
  OBVIOUS
<1> USE DEF script, processes, suite, Phases, BeforeTrap, CleaningUp, Located, Booting,
            Testing, BeforeSuite
<1> USE DEF Cleanup, KillWorker, Reap, KillMock, Return, Preserved, InTrap
<1>1. TypeOK'
  <2>1. phase' \in CleaningUp /\ rc' \in {rc, verdict}
        /\ worker' \in {worker, "stopping", "dead"} /\ files' \subseteq files
        /\ UNCHANGED <<transport, staged, exported, named, known, verdict, polls, mock,
                       routed, squatter, suite>>
    OBVIOUS
  <2> QED BY <2>1 DEF IInv, TypeOK
<1>2. ExportedFirst' /\ NoSquatter'
  BY DEF IInv, TypeOK, ExportedFirst, NoSquatter
<1>3. TestsAsk' /\ VerdictIsJust'
  BY DEF IInv, TestsAsk, VerdictIsJust, Outcome, OwnWorker
<1>4. WorkerGoes'
  BY DEF IInv, TypeOK, WorkerGoes, WorkerReaped
<1> QED BY <1>1, <1>2, <1>3, <1>4 DEF IInv

(* What the mock and the worker do of themselves.                          *)
LEMMA ProcessesKeepIInv == IInv /\ Processes => IInv'
<1> SUFFICES ASSUME IInv, Processes PROVE IInv'
  OBVIOUS
<1> USE DEF script, processes, suite
<1>1. TypeOK'
  BY DEF IInv, TypeOK, Processes, MockUp, MockDies, WorkerUp, WorkerDies, WorkerStops
<1>4. ExportedFirst' /\ NoSquatter'
  BY DEF IInv, ExportedFirst, NoSquatter, Processes, MockUp, MockDies, WorkerUp,
         WorkerDies, WorkerStops
<1>2. TestsAsk' /\ VerdictIsJust'
  BY DEF IInv, TestsAsk, VerdictIsJust, Outcome, OwnWorker, Processes, MockUp, MockDies,
         WorkerUp, WorkerDies, WorkerStops
<1>3. WorkerGoes'
  BY DEF IInv, WorkerGoes, WorkerReaped, BeforeTrap, Processes, MockUp, MockDies, WorkerUp,
         WorkerDies, WorkerStops
<1> QED BY <1>1, <1>2, <1>3, <1>4 DEF IInv

(* The job is cancelled, before the cleanup has begun or in the midst of it*)
LEMMA InterruptKeepsIInv == IInv /\ (Interrupt \/ InterruptCleanup) => IInv'
<1> SUFFICES ASSUME IInv, Interrupt \/ InterruptCleanup PROVE IInv'
  OBVIOUS
<1>1. CASE Interrupt
  BY <1>1, ExitKeepsIInv DEF Interrupt, Cancelled
<1>2. CASE InterruptCleanup
  <2>5. /\ phase \in InTrap /\ cut' = phase /\ phase' = "ended"
        /\ UNCHANGED <<worker, known, named, files>>
    BY <1>2 DEF InterruptCleanup, processes
  <2>3. WorkerGoes'
    <3>1. WorkerReaped'
      BY <2>5 DEF IInv, WorkerGoes, WorkerReaped, InTrap
    <3> QED BY <2>5, <3>1 DEF IInv, WorkerGoes, BeforeTrap
  <2> USE <1>2 DEF InterruptCleanup, InTrap, CleaningUp, processes
  <2>1. TypeOK'
    BY DEF IInv, TypeOK, Cancelled, Phases
  <2>4. ExportedFirst' /\ NoSquatter'
    BY DEF IInv, ExportedFirst, NoSquatter, Located, Booting, Testing
  <2>2. TestsAsk' /\ VerdictIsJust'
    BY DEF IInv, TestsAsk, VerdictIsJust, Cancelled, Outcome, OwnWorker, BeforeSuite, Testing
  <2> QED BY <2>1, <2>2, <2>3, <2>4 DEF IInv
<1> QED BY <1>1, <1>2

(* The invariant holds throughout.                                         *)
THEOREM Invariance == Spec => []IInv
<1>1. Init => IInv
  <2>1. SUFFICES ASSUME Init PROVE IInv
    OBVIOUS
  <2>2. TypeOK
    <3>1. files \subseteq {"mock_out", "port", "sock"} /\ squatter \in BOOLEAN
      <4>1. squatter \in BOOLEAN /\ files = IF squatter THEN {"sock"} ELSE {}
        BY <2>1 DEF Init
      <4> QED BY <4>1, Zenon
    <3>2. polls \in 0 .. MaxPolls /\ verdict \in Nat /\ rc \in Nat
      BY <2>1, HarnessAssumption DEF Init
    <3>3. result \in [Tests -> {"pending", "pass", "fail", "skip"}]
      BY <2>1 DEF Init
    <3> QED BY <2>1, <3>1, <3>2, <3>3 DEF Init, TypeOK, Phases, BeforeTrap
  <2>3. ExportedFirst /\ NoSquatter /\ VerdictIsJust /\ WorkerGoes
    BY <2>1 DEF Init, ExportedFirst, NoSquatter, VerdictIsJust, WorkerGoes, WorkerReaped, BeforeTrap,
                CleaningUp, InTrap, Located, Booting, Testing
  <2>4. TestsAsk
    BY <2>1 DEF Init, TestsAsk
  <2> QED BY <2>2, <2>3, <2>4 DEF IInv
<1>2. IInv /\ [Next]_vars => IInv'
  <2>1. SUFFICES ASSUME IInv, [Next]_vars PROVE IInv'
    OBVIOUS
  <2>2. CASE UNCHANGED vars
    BY <2>1, <2>2 DEF IInv, TypeOK, ExportedFirst, NoSquatter, TestsAsk, VerdictIsJust,
       WorkerGoes, WorkerReaped, Outcome, OwnWorker, vars, script, processes, suite
  <2>3. CASE Run
    BY <2>1, <2>3, RunTestKeepsIInv, JudgeKeepsIInv DEF Run
  <2> QED BY <2>1, <2>2, <2>3, BootKeepsIInv, CleanupKeepsIInv, ProcessesKeepIInv,
             InterruptKeepsIInv DEF Next, Script
<1> QED BY <1>1, <1>2, PTL DEF Spec

-----------------------------------------------------------------------------
(* What follows                                                            *)

(* Every state of a leg has its type.                                      *)
THEOREM TypeCorrect == Spec => []TypeOK
<1>1. IInv => TypeOK
  BY DEF IInv
<1> QED BY <1>1, Invariance, PTL

(* No leg is green unless every test passed, against the mock and through  *)
(* the worker of this run, over the transport asked for.                   *)
THEOREM GreenIsEarned == Spec => []GreenMeansTested
<1>1. IInv => GreenMeansTested
  <2>1. SUFFICES ASSUME IInv, phase = "ended", rc = 0
                 PROVE  Outcome("pass") = Tests /\ reached = {<<OwnWorker, "mock">>}
    BY DEF GreenMeansTested
  <2>2. Outcome("pass") = Tests
    BY <2>1 DEF IInv, VerdictIsJust, CleaningUp
  <2>3. reached # {}
    BY <2>1, <2>2, HarnessAssumption DEF IInv, TestsAsk, Outcome
  <2> QED BY <2>1, <2>2, <2>3 DEF IInv, TestsAsk
<1> QED BY <1>1, Invariance, PTL

(* No leg that passed is failed by its own cleanup.                        *)
THEOREM PassIsNotFailed == Spec => []PassIsGreen
<1>1. IInv => PassIsGreen
  BY DEF IInv, VerdictIsJust, PassIsGreen, CleaningUp
<1> QED BY <1>1, Invariance, PTL

(* No query of the suite leaves the machine.                               *)
THEOREM NothingIsLive == Spec => []OnlyTheMock
<1>1. IInv => OnlyTheMock
  BY DEF IInv, TestsAsk, OnlyTheMock
<1> QED BY <1>1, Invariance, PTL

(* A worker whose pid was noted outlives the script only where the clean-up*)
(* was cut short, and only as far as it was.                               *)
THEOREM WorkerIsReaped == Spec => []WorkerReaped
<1>1. IInv => WorkerReaped
  BY DEF IInv, WorkerGoes, WorkerReaped, WorkerReaped
<1> QED BY <1>1, Invariance, PTL
=============================================================================
