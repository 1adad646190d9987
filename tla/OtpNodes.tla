------------------------------ MODULE OtpNodes ------------------------------
(***************************************************************************)
(* shell/otp: an init script that starts, stops, restarts and counts the   *)
(* Erlang nodes dallas0, dallas1, ... of a machine.  A node is launched    *)
(* with run_erl -daemon, which the script does not wait for: run_erl       *)
(* numbers its pipes /tmp/erlang.pipe.<n> after the highest it finds,      *)
(* makes them, and becomes a beam process, while the script waits for the  *)
(* pipes that it thinks are next.  Nodes may die at any time, and what the *)
(* script has given up may still happen.                                   *)
(*                                                                         *)
(* run_erl, the beams and their name server are not in src/: what they do  *)
(* is taken from how the script uses them, most of all its comment on line *)
(* 90.  A pair of pipes, .r and .w, is one pipe here.  One script runs at  *)
(* a time.                                                                 *)
(***************************************************************************)
EXTENDS Integers, FiniteSets

CONSTANTS
    MAX_INSTANCE_NUMBER,    \* nodes to start
    MAX_TRIES,              \* tries of stop_otp and start_otp, 100 in the code
    MAX_CHECKS,             \* tries of check_start_bin, 5 in the code
    Procs,                  \* bound on nodes at a time: process slots
    MaxPipe                 \* bound on the numbers of pipes

ASSUME OtpBounds ==
    /\ MAX_INSTANCE_NUMBER \in Nat /\ MAX_CHECKS \in Nat /\ MaxPipe \in Nat
    /\ MAX_TRIES \in Nat \ {0}
    /\ Procs \in SUBSET Nat /\ IsFiniteSet(Procs)

Instances == 0..(MAX_INSTANCE_NUMBER - 1)
Numbers == 1..MaxPipe
Commands == {"start", "stop", "restart", "status"}

VARIABLES
    script,     \* where the script is, its locals, and RETVAL
    proc,       \* what runs in each slot
    pipes,      \* the pipes in /tmp, and who made or opened each
    log,        \* what has been logged of the node launched last, until the
                \* script goes on
    made,       \* history: the node waited for has made the pipes waited for
    late        \* history: since the last start, or when it began, a node
                \* without pipes yet was not waited for any longer

logVars == <<log, made, late>>
otpVars == <<script, proc, pipes, logVars>>

Labels == {"idle", "check", "start", "launch", "wait", "stop", "remove", "status"}
Scripts == [pc : Labels, cmd : Commands, I : 0..MAX_INSTANCE_NUMBER, COUNT : Nat,
            RETVAL : {0, 1}, of : Procs \cup {0}]
Stages == {"dead", "launched", "picked", "booting", "up", "dying", "refused"}
Nodes == [stage : Stages, name : Instances \cup {0}, number : Numbers \cup {0}]
Nobody == [stage |-> "dead", name |-> 0, number |-> 0]

\* A beam is up, has been sent SIGTERM, or was refused its name; pgrep finds
\* each of them by its command line, and only beams.
Named == {"up", "dying"}
Beams == {p \in Procs : proc[p].stage \in Named \cup {"refused"}}
Free == {p \in Procs : proc[p].stage = "dead"}
Launching == {p \in Procs : proc[p].stage \in {"launched", "picked"}}

OtpInit ==
    /\ script = [pc |-> "idle", cmd |-> "status", I |-> 0, COUNT |-> 0,
                 RETVAL |-> 0, of |-> 0]
    /\ proc = [p \in Procs |-> Nobody]
    /\ pipes = << >> /\ log = "nothing" /\ made = FALSE /\ late = FALSE

-----------------------------------------------------------------------------
Goto(pc) == script' = [script EXCEPT !.pc = pc, !.COUNT = 0]
Exit(retval) == script' = [script EXCEPT !.pc = "idle", !.RETVAL = retval,
                             !.I = 0, !.COUNT = 0, !.of = 0]
RemovePipes == pipes' = << >>

\* The four commands.  A start needs slots: a bound of the model.
Command(cmd) ==
    /\ script.pc = "idle"
    /\ cmd \in {"start", "restart"} => Cardinality(Free) >= MAX_INSTANCE_NUMBER
    /\ script' = [script EXCEPT !.pc = "check", !.cmd = cmd, !.COUNT = 0, !.RETVAL = 0]
    /\ UNCHANGED <<proc, pipes, logVars>>

\* check_start_bin: the directory of run_erl may be slow to appear.
check_start_bin ==
    /\ script.pc = "check"
    /\ \/ Goto(IF script.cmd = "restart" THEN "stop" ELSE script.cmd)
       \/ script.COUNT = MAX_CHECKS /\ Exit(1)
       \/ script.COUNT < MAX_CHECKS /\ script' = [script EXCEPT !.COUNT = @ + 1]
    /\ UNCHANGED <<proc, pipes, logVars>>

start ==
    /\ script.pc = "start" /\ script' = [script EXCEPT !.pc = "launch", !.I = 0]
    /\ RemovePipes /\ late' = (Launching # {})
    /\ UNCHANGED <<proc, log, made>>

\* start_otp: the launch, and the wait for pipes numbered by the instance.
Launch ==
    /\ script.pc = "launch" /\ script.I < MAX_INSTANCE_NUMBER
    /\ \E p \in Free :
         /\ \A q \in Free : p <= q
         /\ script' = [script EXCEPT !.pc = "wait", !.COUNT = 0, !.of = p]
         /\ proc' = [proc EXCEPT ![p] = [stage |-> "launched", name |-> script.I,
                                         number |-> 0]]
    /\ log' = "nothing" /\ UNCHANGED <<pipes, made, late>>

\* What the caller of start_otp makes of its result, whether the node is still
\* there or not.
Logged(what, retval) ==
    /\ script' = [script EXCEPT !.pc = "launch", !.I = @ + 1, !.COUNT = 0,
                    !.RETVAL = retval, !.of = 0]
    /\ log' = what /\ made' = FALSE
    /\ late' = (late \/ (what = "failed" /\ script.of \in Launching))

\* Mutant: the pipes of the node before are waited for, which are there.
WaitForLast ==
    /\ script.pc = "wait" /\ UNCHANGED <<proc, pipes>>
    /\ IF script.I \in DOMAIN pipes \cup {0} THEN Logged("started", script.RETVAL)
       ELSE IF script.COUNT + 1 = MAX_TRIES THEN Logged("failed", 1)
       ELSE script' = [script EXCEPT !.COUNT = @ + 1] /\ UNCHANGED logVars

Wait ==
    /\ script.pc = "wait" /\ UNCHANGED <<proc, pipes>>
    /\ IF script.I + 1 \in DOMAIN pipes THEN Logged("started", script.RETVAL)
       ELSE IF script.COUNT + 1 = MAX_TRIES THEN Logged("failed", 1)
       ELSE script' = [script EXCEPT !.COUNT = @ + 1] /\ UNCHANGED logVars

Started ==
    /\ script.pc = "launch" /\ script.I = MAX_INSTANCE_NUMBER
    /\ Exit(script.RETVAL) /\ log' = "nothing"
    /\ UNCHANGED <<proc, pipes, made, late>>

-----------------------------------------------------------------------------
\* SIGTERM to every beam; one that was refused its name goes down anyway.
Pkill == proc' = [p \in Procs |-> IF proc[p].stage = "up"
                                  THEN [proc[p] EXCEPT !.stage = "dying"] ELSE proc[p]]

\* Mutants: one try too many; no bound on the tries.
StopTooLong ==
    /\ script.pc = "stop" /\ Pkill /\ UNCHANGED <<pipes, logVars>>
    /\ IF Beams = {} THEN Goto("remove")
       ELSE IF script.COUNT = MAX_TRIES + 1
       THEN script' = [script EXCEPT !.pc = "remove", !.COUNT = 0, !.RETVAL = 1]
       ELSE script' = [script EXCEPT !.COUNT = @ + 1]
StopForEver ==
    /\ script.pc = "stop" /\ Pkill /\ UNCHANGED <<pipes, logVars>>
    /\ IF Beams = {} THEN Goto("remove") ELSE UNCHANGED script

\* stop_otp: until pkill finds none.  A restart goes on whatever it returned.
stop_otp ==
    /\ script.pc = "stop" /\ Pkill /\ UNCHANGED <<pipes, logVars>>
    /\ IF Beams = {} THEN Goto("remove")
       ELSE IF script.COUNT + 1 = MAX_TRIES
       THEN script' = [script EXCEPT !.pc = "remove", !.COUNT = 0, !.RETVAL = 1]
       ELSE script' = [script EXCEPT !.COUNT = @ + 1]

stop ==
    /\ script.pc = "remove" /\ RemovePipes /\ UNCHANGED <<proc, logVars>>
    /\ IF script.cmd = "restart"
       THEN script' = [script EXCEPT !.pc = "start", !.RETVAL = 0]
       ELSE Exit(script.RETVAL)

\* Mutant: one beam will do.
StatusOfAny ==
    /\ script.pc = "status" /\ UNCHANGED <<proc, pipes, logVars>>
    /\ Exit(IF Beams # {} THEN 0 ELSE 1)

\* pgrep | wc -l: only the number of beams is looked at.
status ==
    /\ script.pc = "status" /\ UNCHANGED <<proc, pipes, logVars>>
    /\ Exit(IF Cardinality(Beams) = MAX_INSTANCE_NUMBER THEN 0 ELSE 1)

Script == check_start_bin \/ start \/ Launch \/ Wait \/ Started
            \/ stop_otp \/ stop \/ status

-----------------------------------------------------------------------------
\* run_erl takes the number after the highest, and makes the pipes only then:
\* "override eachothers pipes".
Pick(p) ==
    /\ proc[p].stage = "launched"
    /\ \E n \in Numbers :
         /\ n - 1 \in DOMAIN pipes \cup {0} /\ \A m \in DOMAIN pipes : m < n
         /\ proc' = [proc EXCEPT ![p].stage = "picked", ![p].number = n]
    /\ UNCHANGED <<script, pipes, logVars>>

MakePipes(p) ==
    /\ proc[p].stage = "picked" /\ proc' = [proc EXCEPT ![p].stage = "booting"]
    /\ LET n == proc[p].number
       IN  pipes' = [m \in DOMAIN pipes \cup {n} |->
                       (IF m \in DOMAIN pipes THEN pipes[m] ELSE {})
                         \cup (IF m = n THEN {p} ELSE {})]
           /\ made' = (made \/ (p = script.of /\ n = script.I + 1))
    /\ UNCHANGED <<script, log, late>>

\* The beam; it goes down if another has its name.
Boot(p) ==
    /\ proc[p].stage = "booting"
    /\ proc' = [proc EXCEPT ![p].stage =
                  IF \E q \in Procs : proc[q].stage \in Named /\ proc[q].name = proc[p].name
                  THEN "refused" ELSE "up"]
    /\ UNCHANGED <<script, pipes, logVars>>

\* The end of a node, killed or crashed.  Its pipes may go with it, or stay.
Die(p) ==
    /\ proc[p].stage # "dead" /\ proc' = [proc EXCEPT ![p] = Nobody]
    /\ LET left == {n \in DOMAIN pipes : pipes[n] # {p}}
       IN  \/ pipes' = [n \in DOMAIN pipes |-> pipes[n] \ {p}]
           \/ pipes' = [n \in left |-> pipes[n] \ {p}]
    /\ UNCHANGED <<script, logVars>>

OtpNext ==
    \/ \E cmd \in Commands : Command(cmd)
    \/ Script
    \/ \E p \in Procs : Pick(p) \/ MakePipes(p) \/ Boot(p) \/ Die(p)

\* The script goes on when it can: its loops sleep a tenth of a second and no
\* command in them waits for a node.  Nothing is assumed of the nodes.
OtpSpec == OtpInit /\ [][OtpNext]_otpVars /\ WF_otpVars(Script)
-----------------------------------------------------------------------------
\* Every variable holds a value of its type, and the counts keep their bounds.
OtpTypeOK ==
    /\ script \in Scripts /\ proc \in [Procs -> Nodes]
    /\ script.COUNT <= MAX_CHECKS \/ script.pc # "check"
    /\ script.pc \in {"stop", "wait"} => script.COUNT < MAX_TRIES
    /\ script.pc \notin {"check", "stop", "wait"} => script.COUNT = 0
    /\ DOMAIN pipes \subseteq Numbers
    /\ log \in {"nothing", "started", "failed"} /\ {made, late} \subseteq BOOLEAN
    /\ \A n \in DOMAIN pipes : pipes[n] \subseteq Procs

\* Two nodes never have the same pipes, which is what the wait on line 95 is
\* for.  It does its work unless a node was given up before it had its pipes
\* (late), although every start and stop removes the pipes under the nodes.
NoSharedPipes ==
    ~late => \A n \in DOMAIN pipes : Cardinality(pipes[n]) <= 1

\* With the same condition, a node that is logged as started has made the pipes
\* that the script waited for, although the script only looks at names in /tmp
\* that any node may have left there.  (It may be dead by then.)
ItsPipes ==
    [][~late /\ log # "started" /\ log' = "started" => made]_otpVars

\* When status says that all is well every instance is up or on its way down,
\* unless a beam that was refused its name is counted in place of one
\* missing: names are unique, so the number of beams is enough (line 206).
StatusIsRight ==
    [][status /\ script'.RETVAL = 0 =>
         \/ \A i \in Instances : \E p \in Procs :
              proc[p].name = i /\ proc[p].stage \in Named
         \/ \E p \in Procs : proc[p].stage = "refused"]_otpVars

\* Every command ends, whatever the nodes do.
CommandsEnd == script.pc # "idle" ~> script.pc = "idle"

\* "Kill and wait for all beams to die" (line 113), and the log says stopped:
\* no beam is there after that.  A node that has its pipes and no beam yet is
\* neither killed nor waited for.
StopLeavesNothing ==
    script.pc = "idle" /\ script.cmd = "stop" /\ script.RETVAL = 0 => Beams = {}
=============================================================================
