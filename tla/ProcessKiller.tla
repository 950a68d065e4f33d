---------------------------- MODULE ProcessKiller ----------------------------
(***************************************************************************)
(* How the Linux server ends the shells of closed terminals: queue_kill    *)
(* and my_process_killer of src/src/linux/server.c.                        *)
(*                                                                         *)
(* The event loop calls queue_kill when it frees the client of a terminal  *)
(* whose pty is still open.  queue_kill enters the pid in pidset, under    *)
(* my_mutex, and starts a detached thread unless the pid was there.  The   *)
(* thread asks whether the shell is gone (waitpid, which also reaps it)    *)
(* and, while it is not, sends SIGHUP, SIGCONT, SIGINT and SIGKILL in      *)
(* turn, with a pause after each; then it takes the pid out of pidset.     *)
(*                                                                         *)
(* What is queued is filesize, an off_t, cut to a pid_t.  When it is not   *)
(* the pid forkpty stored there (KillsItsShell of ClientLoop says when) it *)
(* is any number: waitpid and kill take -1 for every process, 0 for the    *)
(* caller's own process group, and -p for the group p.                     *)
(*                                                                         *)
(* A step is one call that other threads or the kernel can see between:    *)
(* a critical section, a waitpid, a kill.  The kernel's process table is   *)
(* the environment: shells exit, pids come back for other processes.       *)
(***************************************************************************)
EXTENDS Integers, FiniteSets

CONSTANTS
  Pids,         \* the pids of a run, numbers: 1 is init's
  Terminals,    \* the terminals opened in a run, one shell each
  Strays,       \* calls of queue_kill with another number than a shell's pid
  None,         \* no pid, no terminal
  Unset,        \* what an unset status may say to "is it terminated?"
  MaxFailures   \* bound: calls of pthread_create that fail

ASSUME KillerAssumption ==
  /\ Terminals \cap Strays = {}
  /\ Pids \subseteq {p \in Nat : p > 1}
  /\ None \notin Terminals \cup Int
  /\ Unset \subseteq BOOLEAN
  /\ MaxFailures \in Nat

VARIABLES
  table,        \* the kernel's process table
  term,         \* each terminal: how it stands, and its shell's pid (filesize)
  pidset,
  killer,       \* the thread started by each call of queue_kill
  server,       \* main: in its loop, past pidset_destroy, or returned
  lost,         \* history: why nobody is after a terminal's shell
  unstarted     \* history: the pids entered in pidset for a thread not created

vars == <<table, term, pidset, killer, server, lost, unstarted>>

Threads == Terminals \cup Strays

\* The numbers waitpid and kill do not take for the pid of one process.
Every == -1
Own   == 0
Args  == Pids \cup {Every, Own} \cup {-p : p \in Pids}

\* "running" and "zombie" are children of the server, `of' the terminal whose
\* shell it is; "foreign" is any other process.  A child is in the server's own
\* process group until login_tty has made it the leader of one.
Entry == [state : {"free", "running", "zombie", "foreign"}, of : Terminals \cup {None},
          pgrp : Pids \cup {Own}]

Free == [state |-> "free", of |-> None, pgrp |-> Own]

Terminal == [is : {"new", "open", "closed", "left"}, pid : Pids \cup {None}]

\* The signal a killer sends in its n-th round; after the last it does not look again.
Signals == <<"SIGHUP", "SIGCONT", "SIGINT", "SIGKILL">>

Killer == [at : {"none", "check", "signal", "remove", "done"},
           round : DOMAIN Signals, pid : Args \cup {None}]

Idle == [at |-> "none", round |-> 1, pid |-> None]

TypeOK ==
  /\ table \in [Pids -> Entry]
  /\ term \in [Terminals -> Terminal]
  /\ \A s \in Terminals : term[s].is # "new" => term[s].pid \in Pids
  /\ pidset \in SUBSET Args
  /\ killer \in [Threads -> Killer]
  /\ \A t \in Threads : killer[t].at \in {"check", "signal", "remove"} => killer[t].pid \in Args
  /\ \A s \in Terminals :
       killer[s].at \in {"check", "signal", "remove"} => killer[s].pid \in Pids
  /\ server \in {"running", "cleaned", "ended"}
  /\ lost \in [Terminals -> {"no", "mistaken", "missed", "unstarted"}]
  /\ unstarted \in SUBSET Args

Init ==
  /\ table = [p \in Pids |-> Free]
  /\ term = [s \in Terminals |-> [is |-> "new", pid |-> None]]
  /\ pidset = {}
  /\ killer = [t \in Threads |-> Idle]
  /\ server = "running"
  /\ lost = [s \in Terminals |-> "no"]
  /\ unstarted = {}

Runs(s) ==
  /\ term[s].pid \in Pids
  /\ table[term[s].pid].state = "running"
  /\ table[term[s].pid].of = s

Active(t) == killer[t].at \in {"check", "signal", "remove"}

(***************************************************************************)
(* The kernel and the shells                                               *)
(***************************************************************************)
\* The children waitpid(a) waits for and kill(a) signals.
Reached(a) ==
  {p \in Pids : /\ table[p].state \in {"running", "zombie"}
                /\ a \in {p, Every, -table[p].pgrp}}

Becomes(p, from, to) ==
  /\ server # "ended"
  /\ table[p].state = from
  /\ table' = [table EXCEPT ![p].state = to]
  /\ UNCHANGED <<term, pidset, killer, server, lost, unstarted>>

\* For any reason: `exit', the hang-up of its pty, a signal it does not ignore.
ShellExits(p) == Becomes(p, "running", "zombie")

\* setsid in login_tty, in the child.
LeavesGroup(p) ==
  /\ server # "ended"
  /\ table[p].state = "running"
  /\ table[p].pgrp = Own
  /\ table' = [table EXCEPT ![p].pgrp = p]
  /\ UNCHANGED <<term, pidset, killer, server, lost, unstarted>>

ForeignStarts(p) == Becomes(p, "free", "foreign")

ForeignExits(p) == Becomes(p, "foreign", "free")

(***************************************************************************)
(* The event loop                                                          *)
(***************************************************************************)
\* forkpty.
Open(s, p) ==
  /\ server = "running"
  /\ term[s].is = "new"
  /\ table[p].state = "free"
  /\ table' = [table EXCEPT ![p] = [state |-> "running", of |-> s, pgrp |-> Own]]
  /\ term' = [term EXCEPT ![s] = [is |-> "open", pid |-> p]]
  /\ UNCHANGED <<pidset, killer, server, lost, unstarted>>

\* The shell ended first: -EIO closes the pty, and the shell is not queued.
Left(s) ==
  /\ server = "running"
  /\ term[s].is = "open"
  /\ ~Runs(s)
  /\ term' = [term EXCEPT ![s].is = "left"]
  /\ UNCHANGED <<table, pidset, killer, server, lost, unstarted>>

\* Whoever is queued while nobody will look after it is lost.
Loses(t, why) == lost' = IF t \in Terminals THEN [lost EXCEPT ![t] = why] ELSE lost

\* Mutant: start a thread whoever else is after the pid.
QueueKillTwice(t, a) ==
  /\ pidset' = pidset \cup {a}
  /\ killer' = [killer EXCEPT ![t] = [at |-> "check", round |-> 1, pid |-> a]]
  /\ UNCHANGED <<server, lost, unstarted>>

\* pidset_add says whether the pid is new.  pthread_create's result is not looked
\* at: if it failed the pid stays in the set, and the handle given to
\* pthread_detach was never set, which may as well end the process.
QueueKill(t, a) ==
  \/ /\ a \in pidset
     /\ killer' = [killer EXCEPT ![t].at = "done"]
     /\ Loses(t, "missed")
     /\ UNCHANGED <<pidset, server, unstarted>>
  \/ /\ a \notin pidset
     /\ pidset' = pidset \cup {a}
     /\ killer' = [killer EXCEPT ![t] = [at |-> "check", round |-> 1, pid |-> a]]
     /\ UNCHANGED <<server, lost, unstarted>>
  \/ /\ a \notin pidset
     /\ Cardinality(unstarted) < MaxFailures
     /\ pidset' = pidset \cup {a}
     /\ unstarted' = unstarted \cup {a}
     /\ killer' = [killer EXCEPT ![t].at = "done"]
     /\ Loses(t, "unstarted")
     /\ server' \in {server, "ended"}

\* my_free_client of a terminal whose pty is open.
Close(s) ==
  /\ server = "running"
  /\ term[s].is = "open"
  /\ QueueKill(s, term[s].pid)
  /\ term' = [term EXCEPT ![s].is = "closed"]
  /\ UNCHANGED table

\* my_free_client of a client whose lzb and filesize are left from other uses: the
\* size of a file or a listing cut to 32 bits, the -1 of a forkpty that failed, or
\* what malloc found.
Stray(t, a) ==
  /\ server = "running"
  /\ killer[t].at = "none"
  /\ QueueKill(t, a)
  /\ UNCHANGED <<table, term>>

\* my_loop has returned: my_cleanup destroys the set while threads may run.
Cleanup ==
  /\ server = "running"
  /\ server' = "cleaned"
  /\ UNCHANGED <<table, term, pidset, killer, lost, unstarted>>

\* main returns, and with it every thread ends.
Exit ==
  /\ server = "cleaned"
  /\ server' = "ended"
  /\ UNCHANGED <<table, term, pidset, killer, lost, unstarted>>

(***************************************************************************)
(* my_process_killer                                                       *)
(***************************************************************************)
At(t, place) == server # "ended" /\ killer[t].at = place

GoesTo(t, place) == killer' = [killer EXCEPT ![t].at = place]

\* my_is_terminated: waitpid returns -1, as there is no such child.
NoChild(t) ==
  /\ At(t, "check")
  /\ Reached(killer[t].pid) = {}
  /\ GoesTo(t, "remove")
  /\ UNCHANGED <<table, term, pidset, server, lost, unstarted>>

Reap(t, place) ==
  /\ At(t, "check")
  /\ \E p \in Reached(killer[t].pid) :
       table[p].state = "zombie" /\ table' = [table EXCEPT ![p] = Free]
  /\ GoesTo(t, place)
  /\ UNCHANGED <<term, pidset, server, lost, unstarted>>

\* Mutant: a shell just reaped is taken for one that runs.
ReapsAndSignals(t) == Reap(t, "signal")

\* waitpid returns the pid of a child that has ended, and reaps it.
Reaps(t) == Reap(t, "remove")

\* waitpid returns 0 and leaves status as it was: unset.
StillRuns(t, terminated) ==
  /\ At(t, "check")
  /\ Reached(killer[t].pid) # {}
  /\ \A p \in Reached(killer[t].pid) : table[p].state = "running"
  /\ terminated \in Unset
  /\ GoesTo(t, IF terminated THEN "remove" ELSE "signal")
  /\ IF terminated THEN Loses(t, "mistaken") ELSE UNCHANGED lost
  /\ UNCHANGED <<table, term, pidset, server, unstarted>>

\* Mutant: give up after SIGINT.
SignalGivesUp(t) ==
  /\ At(t, "signal")
  /\ killer[t].round < 4
  /\ killer' = IF killer[t].round = 3 THEN [killer EXCEPT ![t].at = "remove"]
               ELSE [killer EXCEPT ![t].at = "check", ![t].round = @ + 1]
  /\ UNCHANGED <<table, term, pidset, server, lost, unstarted>>

\* kill() succeeds on a child, reaped or not, and on the server itself; processes of
\* others may refuse it, and every process or a group may have some.
Sent(a) ==
  IF a = Own \/ Reached(a) # {} THEN {TRUE}
  ELSE IF a \in Pids /\ table[a].state = "free" THEN {FALSE} ELSE BOOLEAN

\* kill() and, if it was sent, the pause.  What SIGHUP, SIGCONT and SIGINT do to a
\* child is ShellExits' to say.  Sent to its own group SIGHUP ends the server, unless
\* it was started to ignore it, and SIGINT is its request to stop (Cleanup).
Signal(t) ==
  /\ At(t, "signal")
  /\ Signals[killer[t].round] # "SIGKILL"
  /\ \E sent \in Sent(killer[t].pid) :
       killer' = IF sent THEN [killer EXCEPT ![t].at = "check", ![t].round = @ + 1]
                 ELSE [killer EXCEPT ![t].at = "remove"]
  /\ server' \in IF killer[t].pid = Own /\ Signals[killer[t].round] = "SIGHUP"
                 THEN {server, "ended"} ELSE {server}
  /\ UNCHANGED <<table, term, pidset, lost, unstarted>>

\* The last signal cannot be ignored.  Nobody waits for what it kills.
SignalKill(t) ==
  /\ At(t, "signal")
  /\ Signals[killer[t].round] = "SIGKILL"
  /\ table' = [p \in Pids |-> IF p \in Reached(killer[t].pid)
                              THEN [table[p] EXCEPT !.state = "zombie"] ELSE table[p]]
  /\ GoesTo(t, "remove")
  /\ server' = IF killer[t].pid = Own THEN "ended" ELSE server
  /\ UNCHANGED <<term, pidset, lost, unstarted>>

\* Once the set is destroyed this may as well end the process.
Remove(t) ==
  /\ At(t, "remove")
  /\ pidset' = pidset \ {killer[t].pid}
  /\ GoesTo(t, "done")
  /\ server' \in IF server = "cleaned" THEN {"cleaned", "ended"} ELSE {server}
  /\ UNCHANGED <<table, term, lost, unstarted>>

KillerStep(t) ==
  \/ NoChild(t)
  \/ Reaps(t)
  \/ \E terminated \in BOOLEAN : StillRuns(t, terminated)
  \/ Signal(t)
  \/ SignalKill(t)
  \/ Remove(t)

Ended == server = "ended" /\ UNCHANGED vars

Next ==
  \/ \E p \in Pids : ShellExits(p) \/ LeavesGroup(p) \/ ForeignStarts(p) \/ ForeignExits(p)
  \/ \E s \in Terminals : Left(s) \/ Close(s) \/ \E p \in Pids : Open(s, p)
  \/ \E t \in Strays, a \in Args : Stray(t, a)
  \/ \E t \in Threads : KillerStep(t)
  \/ Cleanup \/ Exit \/ Ended

Spec == Init /\ [][Next]_vars

\* Threads are scheduled, and their pauses end.  Nothing makes a shell exit, a
\* browser leave or a pid come back.
Fairness == \A t \in Threads : WF_vars(KillerStep(t))

FairSpec == Spec /\ Fairness

(***************************************************************************)
(* Safety                                                                  *)
(***************************************************************************)
\* The set that keeps a second thread from a pid is exact: a pid is in it if and
\* only if one thread is after it, or was to be and could not be created.
PidsetIsKillers ==
  /\ \A a \in Args :
       a \in pidset <=> (a \in unstarted \/ \E t \in Threads : Active(t) /\ killer[t].pid = a)
  /\ \A t, u \in Threads : Active(t) /\ Active(u) /\ killer[t].pid = killer[u].pid => t = u

\* No thread was started for a number that stands for several processes.
Narrow == \A x \in Strays : killer[x].pid \in Pids \cup {None}

\* Between its waitpid and its kill a killer's pid belongs to a child that is not
\* reaped, so that no signal can reach a process that got the pid since; until a
\* stray call's number is -1, 0 or a group's, whose waitpid reaps any of several
\* children behind the back of the killers that are after them.
SignalsReachChildren ==
  Narrow =>
    \A t \in Threads :
      killer[t].at = "signal" => table[killer[t].pid].state \in {"running", "zombie"}

\* The signals of a terminal's killer go to that terminal's shell, whatever pids
\* come back, until a stray call has been made: its killer may reap a shell its
\* terminal still has the pid of.
SignalsItsShell ==
  (\A x \in Strays : killer[x].at = "none") =>
    \A t \in Terminals :
      killer[t].at = "signal" => table[killer[t].pid].of = t /\ term[t].is = "closed"

\* A shell that outlives its closed terminal has its killer after it, which has
\* not given up, unless the shell was lost: mistaken for terminated, found in the
\* set under a pid it inherited, or left without a thread.
PursuedUnlessLost ==
  \A s \in Terminals :
    term[s].is = "closed" /\ Runs(s) /\ lost[s] = "no" =>
      killer[s].at \in {"check", "signal"} /\ killer[s].pid = term[s].pid

(***************************************************************************)
(* Liveness, under Fairness                                                *)
(***************************************************************************)
\* The shell of a closed terminal ends ("Your terminal is still running, kill
\* anyway?", index.js 102), unless it was lost.
ClosedShellEndsUnlessLost ==
  \A s \in Terminals :
    term[s].is = "closed" /\ Runs(s) ~> ~Runs(s) \/ lost[s] # "no" \/ server # "running"
=============================================================================
