----------------------------- MODULE CiHarness -----------------------------
(***************************************************************************)
(* ci/run-integration.sh: one leg of the integration job.  The script      *)
(* stages the SQL tests, starts the mock news server, exports its address, *)
(* boots a worker of its own for the http and unix transports, runs the    *)
(* suite, judges the runner's report and cleans up.  Beside it run the     *)
(* mock, the worker and the test runner, which may die, and the job may be *)
(* cancelled between any two steps, those of the clean-up included (ci.yml:*)
(* cancel-in-progress).                                                    *)
(***************************************************************************)
EXTENDS Integers

CONSTANTS Tests,       \* the .test files of the suite
          Transports,  \* what TRANSPORT may be set to
          MaxPolls     \* turns of a boot loop (100 and 240 in the code)

ASSUME HarnessAssumption == Tests # {} /\ MaxPolls \in Nat

VARIABLES
  transport, phase,  \* $TRANSPORT, and where the script is
  polls,             \* turns of the boot loop it is in
  staged,            \* extensions the staged tests load
  exported,          \* are the base-URL variables exported?
  named,             \* which of PORT_FILE and SOCK are set
  known,             \* the processes whose pid is noted
  verdict, rc,       \* the status of the exit, and the one the caller sees
  mock, worker,      \* the processes the script started
  routed,            \* was the worker booted with the variables?
  files,             \* what lies about of the two files and $MOCK_OUT
  squatter,          \* does SOCK's name lead to an older worker?
  result,            \* history: what became of each test
  reached,           \* history: which worker asked which service
  cut                \* history: the step of the clean-up not reached, if any

script    == <<transport, staged, exported, named, known, verdict, rc>>
processes == <<mock, worker, routed, files, squatter>>
suite     == <<result, reached, cut>>
vars      == <<script, phase, polls, processes, suite>>

BeforeTrap == {"stage", "mock", "trap"}
InTrap     == {"kill_worker", "reap", "kill_mock", "remove"}
CleaningUp == InTrap \cup {"ended"}
Phases == BeforeTrap \cup CleaningUp \cup
          {"mock_wait", "locate", "boot", "note", "worker_wait", "suite", "judge"}

Workers  == {"spawned", "booted", "squatter"}
Services == {"mock", "live"}

TypeOK == /\ transport \in Transports /\ phase \in Phases
          /\ polls \in 0 .. MaxPolls
          /\ staged \subseteq {"vgi", "httpfs"}
          /\ exported \in BOOLEAN /\ routed \in BOOLEAN /\ squatter \in BOOLEAN
          /\ named \subseteq {"port", "sock"}
          /\ known \subseteq {"mock", "worker"}
          /\ verdict \in Nat /\ rc \in Nat
          /\ mock \in {"none", "starting", "up", "dead", "stillborn"}
          /\ worker \in {"none", "starting", "up", "stopping", "dead"}
          /\ files \subseteq {"mock_out", "port", "sock"}
          /\ result \in [Tests -> {"pending", "pass", "fail", "skip"}]
          /\ reached \subseteq Workers \X Services
          /\ cut \in InTrap \cup {"no"}

(* SOCK is named after the script's pid: an earlier script of that pid may *)
(* have left one, and a worker that listens there.                         *)
Init == /\ transport \in Transports /\ phase = "stage" /\ polls = 0
        /\ staged = {} /\ exported = FALSE /\ named = {} /\ known = {}
        /\ verdict = 0 /\ rc = 0
        /\ mock = "none" /\ worker = "none" /\ routed = FALSE
        /\ squatter \in BOOLEAN
        /\ files = IF squatter THEN {"sock"} ELSE {}
        /\ result = [t \in Tests |-> "pending"] /\ reached = {} /\ cut = "no"

-----------------------------------------------------------------------------
(* The script: booting                                                     *)

(* exit: the trap cleans up once it is set.                                *)
Exit(status) ==
  /\ verdict' = status
  /\ IF phase \in BeforeTrap THEN phase' = "ended" /\ rc' = status
                             ELSE phase' = "kill_worker" /\ rc' = rc
  /\ UNCHANGED <<transport, polls, staged, exported, named, known, processes, suite>>

Stage == /\ phase = "stage"
         /\ staged' = {"vgi"}
         /\ phase' = "mock"
         /\ UNCHANGED <<transport, polls, exported, named, known, verdict, rc,
                        processes, suite>>

StageFails == phase = "stage" /\ Exit(1)

StartMock == /\ phase = "mock"
             /\ files' = files \cup {"mock_out"}
             /\ mock' = "starting"
             /\ phase' = "trap"
             /\ UNCHANGED <<script, polls, worker, routed, squatter, suite>>

SetTrap == /\ phase = "trap"
           /\ known' = {"mock"}
           /\ phase' = "mock_wait"
           /\ UNCHANGED <<transport, polls, staged, exported, named, verdict, rc,
                          processes, suite>>

(* A slip in a boot loop's turns, for a run's mutant.                      *)
OnePollMore == /\ polls <= MaxPolls
               /\ polls' = polls + 1
               /\ UNCHANGED <<script, phase, processes, suite>>

(* One more turn of a boot loop, and its end.                              *)
Poll == /\ polls < MaxPolls
        /\ polls' = polls + 1
        /\ UNCHANGED <<script, phase, processes, suite>>

PollsOut == polls = MaxPolls

(* The URL line, which stays in $MOCK_OUT when the mock dies.              *)
MockReports == /\ phase = "mock_wait" /\ ~PollsOut
               /\ mock \in {"up", "dead"}
               /\ exported' = TRUE
               /\ polls' = 0
               /\ phase' = "locate"
               /\ UNCHANGED <<transport, staged, named, known, verdict, rc,
                              processes, suite>>

MockSilent == /\ phase = "mock_wait"
              /\ \/ mock \in {"starting", "stillborn"} /\ Poll
                 \/ PollsOut /\ Exit(1)

LocateSubprocess == /\ phase = "locate" /\ transport = "subprocess"
                    /\ phase' = "suite"
                    /\ UNCHANGED <<script, polls, processes, suite>>

(* Every staged test gets a LOAD httpfs after its LOAD vgi.                *)
LocateHttp == /\ phase = "locate" /\ transport = "http"
              /\ staged' = staged \cup {"httpfs"}
              /\ named' = {"port"}
              /\ phase' = "boot"
              /\ UNCHANGED <<transport, polls, exported, known, verdict, rc,
                             processes, suite>>

(* A slip, for a run's mutant: what lies there is left.                    *)
SocketKept == files

(* rm -f "$SOCK"                                                           *)
SocketRemoved == files \ {"sock"}

LocateUnix == /\ phase = "locate" /\ transport = "unix"
              /\ named' = {"sock"}
              /\ files' = SocketRemoved
              /\ squatter' = (squatter /\ "sock" \in SocketRemoved)
              /\ phase' = "boot"
              /\ UNCHANGED <<transport, polls, staged, exported, known, verdict, rc,
                             mock, worker, routed, suite>>

LocateOther == /\ phase = "locate"
               /\ transport \notin {"subprocess", "http", "unix"}
               /\ Exit(2)

(* A slip, for a run's mutant: variables that are set but not exported.    *)
NotInherited == FALSE

Inherited == exported

BootWorker == /\ phase = "boot"
              /\ worker' = "starting"
              /\ routed' = Inherited
              /\ phase' = "note"
              /\ UNCHANGED <<script, polls, mock, files, squatter, suite>>

NoteWorker == /\ phase = "note"
              /\ known' = known \cup {"worker"}
              /\ phase' = "worker_wait"
              /\ UNCHANGED <<transport, polls, staged, exported, named, verdict, rc,
                             processes, suite>>

(* kill -0 first, then the file the worker makes, then another turn.       *)
WorkerGone == phase = "worker_wait" /\ worker = "dead" /\ ~PollsOut /\ Exit(1)

WorkerReports == /\ phase = "worker_wait" /\ ~PollsOut
                 /\ worker # "dead"
                 /\ named \subseteq files
                 /\ phase' = "suite"
                 /\ UNCHANGED <<script, polls, processes, suite>>

WorkerSilent == /\ phase = "worker_wait"
                /\ \/ worker # "dead" /\ ~(named \subseteq files) /\ Poll
                   \/ PollsOut /\ Exit(1)

-----------------------------------------------------------------------------
(* The suite and its judgement                                             *)

(* External: the worker that $VGI_NEWS_WORKER leads to, when there is one. *)
Serving == {w \in Workers :
              \/ w = "spawned"  /\ transport = "subprocess"
              \/ w = "squatter" /\ transport = "unix" /\ squatter /\ "sock" \in files
              \/ w = "booted"   /\ transport # "subprocess" /\ worker = "up"
                                /\ (transport = "unix" => ~squatter)}

Loadable == IF transport = "http" THEN {"vgi", "httpfs"} \subseteq staged
                                  ELSE "vgi" \in staged

(* External: the service a worker asks, by what it was started with.       *)
AsksFor(w) == IF \/ w = "spawned" /\ Inherited
                 \/ w = "booted" /\ routed
              THEN "mock" ELSE "live"

(* External: the runner takes the tests one by one.  A test can pass only  *)
(* if it got rows; an error is a failure, or a skip when its text is on    *)
(* the runner's list ("HTTP", "Unable to connect").                        *)
RunTest(t) ==
  /\ phase = "suite" /\ result[t] = "pending"
  /\ \/ \E w \in Serving, outcome \in {"pass", "fail", "skip"} :
          /\ Loadable
          /\ reached' = reached \cup {<<w, AsksFor(w)>>}
          /\ outcome = "pass" => AsksFor(w) = "live" \/ mock = "up"
          /\ result' = [result EXCEPT ![t] = outcome]
     \/ \E outcome \in {"fail", "skip"} :
          /\ Serving = {} \/ ~Loadable
          /\ result' = [result EXCEPT ![t] = outcome]
          /\ UNCHANGED reached
  /\ UNCHANGED <<script, phase, polls, processes, cut>>

(* External: the runner ends, with all tests run or having found none.     *)
RunnerEnds == /\ phase = "suite"
              /\ (\A t \in Tests : result[t] # "pending")
                   \/ (\A t \in Tests : result[t] = "pending")
              /\ phase' = "judge"
              /\ UNCHANGED <<script, polls, processes, suite>>

Outcome(o) == {t \in Tests : result[t] = o}

(* External: its exit status, and the summary lines it may print.          *)
Status == IF Outcome("fail") # {} THEN 1 ELSE 0
Summaries == IF Outcome("pass") = Tests THEN {"passed"}
             ELSE IF Outcome("pending") = Tests THEN {"none"}
             ELSE IF Outcome("skip") = Tests THEN {"were skipped"}
             ELSE {"were skipped", "passed, some skipped"}

(* A slip, for a run's mutant: the count of assertions is not looked for.  *)
AnyPass(summary) == summary \in {"passed", "passed, some skipped"}

(* grep 'All tests passed \([1-9][0-9]* assertions'                        *)
Passes(summary) == summary = "passed"

(* Three guards: the status, the skips, the summary.                       *)
Judge == /\ phase = "judge"
         /\ \E summary \in Summaries :
              \/ Status # 0 /\ Exit(Status)
              \/ Status = 0 /\ summary = "were skipped" /\ Exit(1)
              \/ Status = 0 /\ summary # "were skipped" /\ ~Passes(summary) /\ Exit(1)
              \/ Status = 0 /\ summary # "were skipped" /\ Passes(summary) /\ Exit(0)

-----------------------------------------------------------------------------
(* cleanup                                                                 *)

(* Slips, for the runs' mutants: wait without kill, kill without wait.     *)
WaitOnly == /\ phase = "kill_worker"
            /\ phase' = "reap"
            /\ UNCHANGED <<script, polls, processes, suite>>
KillOnly == /\ phase = "reap"
            /\ phase' = "kill_mock"
            /\ UNCHANGED <<script, polls, processes, suite>>

KillWorker == /\ phase = "kill_worker"
              /\ worker' = IF "worker" \in known /\ worker \in {"starting", "up"}
                           THEN "stopping" ELSE worker
              /\ phase' = "reap"
              /\ UNCHANGED <<script, polls, mock, routed, files, squatter, suite>>

(* wait "$SERVER_PID"                                                      *)
Reap == /\ phase = "reap"
        /\ "worker" \in known => worker = "dead"
        /\ phase' = "kill_mock"
        /\ UNCHANGED <<script, polls, processes, suite>>

(* A slip, for a run's mutant: the status of the last [[ ]].               *)
LastTest(status) == IF "port" \in named THEN status ELSE 1

(* local rc=$? first, return "$rc" last.                                   *)
Preserved(status) == status

(* MOCK_PID is the subshell that runs `uv run`: killing it leaves the mock *)
(* itself running.  SOCK or PORT_FILE goes next.                           *)
KillMock == /\ phase = "kill_mock"
            /\ files' = files \ named
            /\ phase' = "remove"
            /\ UNCHANGED <<script, polls, mock, worker, routed, squatter, suite>>

(* rm -f "$MOCK_OUT"; return "$rc"                                         *)
Return == /\ phase = "remove"
          /\ files' = files \ {"mock_out"}
          /\ rc' = Preserved(verdict)
          /\ phase' = "ended"
          /\ UNCHANGED <<transport, staged, exported, named, known, verdict, polls,
                         mock, worker, routed, squatter, suite>>

-----------------------------------------------------------------------------
(* The job is cancelled.  A signal ends the script through its trap, where *)
(* one is set; a signal that comes in the trap ends it there, for bash does*)
(* not enter the trap twice.                                               *)
Cancelled == 130

Interrupt == phase \notin CleaningUp /\ Exit(Cancelled)

InterruptCleanup == /\ phase \in InTrap
                    /\ cut' = phase
                    /\ verdict' = Cancelled /\ rc' = Cancelled
                    /\ phase' = "ended"
                    /\ UNCHANGED <<transport, staged, exported, named, known, polls,
                                   processes, result, reached>>

-----------------------------------------------------------------------------
(* The processes                                                           *)

MockUp == /\ mock = "starting" /\ mock' = "up"
          /\ UNCHANGED <<script, phase, polls, worker, routed, files, squatter, suite>>

MockDies == /\ \/ mock = "up" /\ mock' = "dead"
               \/ mock = "starting" /\ mock' = "stillborn"
            /\ UNCHANGED <<script, phase, polls, worker, routed, files, squatter, suite>>

(* A worker is up when it has made its file; a name that is taken fails.   *)
WorkerUp == /\ worker = "starting"
            /\ named \cap files = {}
            /\ worker' = "up"
            /\ files' = files \cup named
            /\ UNCHANGED <<script, phase, polls, mock, routed, squatter, suite>>

WorkerDies == /\ worker \in {"starting", "up"} /\ worker' = "dead"
              /\ UNCHANGED <<script, phase, polls, mock, routed, files, squatter, suite>>

WorkerStops == /\ worker = "stopping" /\ worker' = "dead"
               /\ UNCHANGED <<script, phase, polls, mock, routed, files, squatter, suite>>

Boot == \/ Stage \/ StageFails \/ StartMock \/ SetTrap
        \/ MockReports \/ MockSilent
        \/ LocateSubprocess \/ LocateHttp \/ LocateUnix \/ LocateOther
        \/ BootWorker \/ NoteWorker
        \/ WorkerGone \/ WorkerReports \/ WorkerSilent

Run == (\E t \in Tests : RunTest(t)) \/ RunnerEnds \/ Judge

Cleanup == KillWorker \/ Reap \/ KillMock \/ Return

Script == Boot \/ Run \/ Cleanup

Processes == MockUp \/ MockDies \/ WorkerUp \/ WorkerDies \/ WorkerStops

Next == Script \/ Interrupt \/ InterruptCleanup \/ Processes

(* The script goes on, the runner comes back, a killed worker dies.        *)
Spec == Init /\ [][Next]_vars /\ WF_vars(Script) /\ WF_vars(WorkerStops)

-----------------------------------------------------------------------------
(* What the harness is for.                                                *)

OwnWorker == IF transport = "subprocess" THEN "spawned" ELSE "booted"

(* A green leg has tested what it says: every test passed, over the        *)
(* transport asked for, through the worker of this run, against the mock.  *)
GreenMeansTested ==
  phase = "ended" /\ rc = 0 => /\ Outcome("pass") = Tests
                               /\ reached = {<<OwnWorker, "mock">>}

(* A leg whose tests all passed, and that nobody cancelled, is green: no   *)
(* test of the cleanup's own becomes the script's status.                  *)
PassIsGreen ==
  phase = "ended" /\ Outcome("pass") = Tests /\ verdict # Cancelled => rc = 0

(* No query of the suite reaches a live news service.                      *)
OnlyTheMock == \A r \in reached : r[2] = "mock"

(* When the script is over, the worker it noted is gone, and so are the    *)
(* files that lead to it, whenever it failed or was cancelled first.  If   *)
(* the clean-up itself was cut short, what it had done by then stays done: *)
(* a kill sent is on its way, a worker waited for is gone.                 *)
WorkerReaped == phase = "ended" /\ "worker" \in known =>
  /\ worker \in {"starting", "up"} => cut = "kill_worker"
  /\ worker = "stopping" => cut = "reap"
  /\ named \cap files # {} => cut \in {"kill_worker", "reap", "kill_mock"}

(* The script comes to its end, whatever dies or hangs at boot.            *)
HarnessEnds == <>(phase = "ended")
=============================================================================
