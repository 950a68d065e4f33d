------------------------- MODULE ProcessKillerProofs -------------------------
(***************************************************************************)
(* Theorems about ProcessKiller, for any terminals, strays, pids and       *)
(* failures.                                                               *)
(***************************************************************************)
EXTENDS ProcessKiller, TLAPS

Children == {"running", "zombie"}

Alive(p) == table[p].state \in Children

\* The set and the threads: pidset is exact, and a killer about to signal has a
\* child for its pid while no number stands for several.
IPids ==
  /\ unstarted \subseteq pidset
  /\ \A t \in Threads : Active(t) => killer[t].pid \in pidset \ unstarted
  /\ \A p \in pidset \ unstarted : \E t \in Threads : Active(t) /\ killer[t].pid = p
  /\ \A t, u \in Threads : Active(t) /\ Active(u) /\ killer[t].pid = killer[u].pid => t = u
  /\ \A t \in Threads : killer[t].at = "none" => killer[t].pid = None
  /\ Narrow => \A t \in Threads : killer[t].at = "signal" => Alive(killer[t].pid)

\* The terminals: a thread is started by the closing of its terminal only, and
\* follows its shell until it gives up.
ITerms ==
  /\ \A s \in Terminals : term[s].is # "closed" => killer[s].at = "none"
  /\ PursuedUnlessLost

IInv == TypeOK /\ IPids /\ ITerms

ShellOf(s, p) == Alive(p) /\ table[p].of = s

Unstrayed == \A x \in Strays : killer[x].at = "none"

\* Until a stray call is made nobody else reaps a shell: until its own killer has
\* done so its pid is still its own.
IOwn ==
  /\ \A s \in Terminals : term[s].is = "open" => ShellOf(s, term[s].pid)
  /\ \A s \in Terminals : killer[s].at \in {"check", "signal"} => ShellOf(s, killer[s].pid)

(***************************************************************************)
(* Types                                                                   *)
(***************************************************************************)
LEMMA PidsNumbers == \A p \in Pids : p \in Nat /\ p > 1
  BY KillerAssumption

\* A pid stands for one child, or for none.
LEMMA ReachedOne ==
  ASSUME TypeOK, NEW a \in Pids
  PROVE  Reached(a) = IF Alive(a) THEN {a} ELSE {}
<1>1. \A p \in Pids : table[p].pgrp \in Pids \cup {0}
  BY DEF TypeOK, Entry, Own
<1>2. \A p \in Pids : a # -table[p].pgrp /\ a # Every
  BY <1>1, PidsNumbers DEF Every
<1>. QED BY <1>2 DEF Reached, Alive, Children

LEMMA PidsAreArgs == Pids \subseteq Args /\ None \notin Args
<1>1. Args \subseteq Int
  <2>1. {-p : p \in Pids} \subseteq Int
    BY PidsNumbers
  <2>. QED BY <2>1, PidsNumbers DEF Args, Own, Every
<1>2. None \notin Int
  BY KillerAssumption
<1>. QED BY <1>1, <1>2 DEF Args

LEMMA TypeInit == Init => TypeOK
  BY KillerAssumption DEF Init, TypeOK, Entry, Free, Terminal, Killer, Idle, Signals, Threads

LEMMA QueueKillTypes ==
  ASSUME TypeOK, NEW t \in Threads, NEW p \in Args, QueueKill(t, p),
         t \in Terminals => p \in Pids
  PROVE  /\ pidset' \in SUBSET Args
         /\ killer' \in [Threads -> Killer]
         /\ \A u \in Threads :
              killer'[u].at \in {"check", "signal", "remove"} => killer'[u].pid \in Args
         /\ \A u \in Terminals :
              killer'[u].at \in {"check", "signal", "remove"} => killer'[u].pid \in Pids
         /\ server' \in {"running", "cleaned", "ended"}
         /\ lost' \in [Terminals -> {"no", "mistaken", "missed", "unstarted"}]
         /\ unstarted' \in SUBSET Args
<1>. USE DEF TypeOK, Killer, Signals, Threads
<1>1. CASE p \in pidset /\ killer' = [killer EXCEPT ![t].at = "done"] /\ Loses(t, "missed")
           /\ UNCHANGED <<pidset, server, unstarted>>
  BY <1>1 DEF Loses
<1>2. CASE /\ pidset' = pidset \cup {p}
           /\ killer' = [killer EXCEPT ![t] = [at |-> "check", round |-> 1, pid |-> p]]
           /\ UNCHANGED <<server, lost, unstarted>>
  BY <1>2
<1>3. CASE /\ pidset' = pidset \cup {p}
           /\ unstarted' = unstarted \cup {p}
           /\ killer' = [killer EXCEPT ![t].at = "done"]
           /\ Loses(t, "unstarted")
           /\ server' \in {server, "ended"}
  BY <1>3 DEF Loses
<1>. QED BY <1>1, <1>2, <1>3 DEF QueueKill


LEMMA KillerTypes ==
  ASSUME TypeOK, NEW t \in Threads, KillerStep(t)
  PROVE  TypeOK'
<1>. USE DEF TypeOK
<1>1. ASSUME NEW place \in {"signal", "remove", "done"}, GoesTo(t, place),
             Active(t)
      PROVE  /\ killer' \in [Threads -> Killer]
             /\ \A u \in Threads :
                  killer'[u].at \in {"check", "signal", "remove"} => killer'[u].pid \in Args
             /\ \A u \in Terminals :
                  killer'[u].at \in {"check", "signal", "remove"} => killer'[u].pid \in Pids
  BY <1>1 DEF GoesTo, Killer, Active, Threads
<1>2. CASE NoChild(t)
  BY <1>1, <1>2 DEF NoChild, At, Active
<1>3. CASE Reaps(t)
  <2>1. table' \in [Pids -> Entry]
    BY <1>3 DEF Reaps, Reap, Entry, Free, Reached
  <2>. QED BY <1>1, <1>3, <2>1 DEF Reaps, Reap, At, Active
<1>4. ASSUME NEW terminated \in BOOLEAN, StillRuns(t, terminated)
      PROVE  TypeOK'
  BY <1>1, <1>4 DEF StillRuns, At, Active, Loses
<1>5. CASE Signal(t)
  <2>1. killer[t] \in Killer /\ killer[t].round \in 1..3
    BY <1>5 DEF Signal, Killer, Signals
  <2>2. killer[t].round + 1 \in 1..4 /\ DOMAIN Signals = 1..4
    BY <2>1 DEF Signals
  <2>3. server' \in {"running", "cleaned", "ended"}
    BY <1>5 DEF Signal
  <2>. QED BY <1>5, <2>1, <2>2, <2>3 DEF Signal, Killer, At, Threads
<1>6. CASE SignalKill(t)
  <2>1. table' \in [Pids -> Entry]
    BY <1>6 DEF SignalKill, Entry
  <2>. QED BY <1>1, <1>6, <2>1 DEF SignalKill, At, Active
<1>7. CASE Remove(t)
  BY <1>1, <1>7 DEF Remove, At, Active
<1>. QED BY <1>2, <1>3, <1>4, <1>5, <1>6, <1>7 DEF KillerStep

LEMMA TypeStep == TypeOK /\ [Next]_vars => TypeOK'
<1>. SUFFICES ASSUME TypeOK, [Next]_vars PROVE TypeOK'
  OBVIOUS
<1>1. ASSUME NEW p \in Pids, ShellExits(p) \/ ForeignStarts(p) \/ ForeignExits(p)
      PROVE  TypeOK'
  BY <1>1 DEF TypeOK, ShellExits, ForeignStarts, ForeignExits, Becomes, Entry
<1>8. ASSUME NEW p \in Pids, LeavesGroup(p)
      PROVE  TypeOK'
  BY <1>8 DEF TypeOK, LeavesGroup, Entry
<1>2. ASSUME NEW s \in Terminals, NEW p \in Pids, Open(s, p)
      PROVE  TypeOK'
  BY <1>2 DEF TypeOK, Open, Entry, Terminal
<1>3. ASSUME NEW s \in Terminals, Left(s)
      PROVE  TypeOK'
  BY <1>3 DEF TypeOK, Left, Terminal
<1>4. ASSUME NEW s \in Terminals, Close(s)
      PROVE  TypeOK'
  <2>1. /\ s \in Threads /\ QueueKill(s, term[s].pid) /\ term[s].pid \in Pids
        /\ term' \in [Terminals -> Terminal]
        /\ \A u \in Terminals : term'[u].is # "new" => term'[u].pid \in Pids
    BY <1>4 DEF TypeOK, Close, Terminal, Threads
  <2>. QED BY <1>4, <2>1, QueueKillTypes, PidsAreArgs DEF TypeOK, Close
<1>5. ASSUME NEW t \in Strays, NEW a \in Args, Stray(t, a)
      PROVE  TypeOK'
  <2>1. t \in Threads /\ QueueKill(t, a) /\ t \notin Terminals
    BY <1>5, KillerAssumption DEF Stray, Threads
  <2>. QED BY <1>5, <2>1, QueueKillTypes DEF TypeOK, Stray
<1>6. ASSUME NEW t \in Threads, KillerStep(t)
      PROVE  TypeOK'
  BY <1>6, KillerTypes
<1>7. CASE Cleanup \/ Exit \/ Ended \/ UNCHANGED vars
  BY <1>7 DEF Cleanup, Exit, Ended, vars, TypeOK
<1>. QED BY <1>1, <1>2, <1>3, <1>4, <1>5, <1>6, <1>7, <1>8 DEF Next
(***************************************************************************)
(* The set and the threads                                                 *)
(***************************************************************************)
LEMMA PidsInit == Init => IPids
  BY DEF Init, IPids, Active, Idle

\* A step that leaves the set and the threads alone, and no child's entry to others.
LEMMA PidsAlone ==
  ASSUME TypeOK, IPids, UNCHANGED <<pidset, unstarted, killer>>,
         \A p \in Pids : Alive(p) => Alive(p)'
  PROVE  IPids'
<1>1. Narrow' => Narrow /\ \A t \in Threads : killer[t].at = "signal" => killer[t].pid \in Pids
  BY PidsAreArgs DEF Narrow, TypeOK, Threads
<1>2. Narrow' => \A t \in Threads : killer'[t].at = "signal" => Alive(killer[t].pid)'
  BY <1>1 DEF IPids, Alive
<1>. QED BY <1>2 DEF IPids, Active

LEMMA QueueKillPids ==
  ASSUME TypeOK, IPids, NEW t \in Threads, NEW p \in Args, QueueKill(t, p),
         killer[t].at = "none", UNCHANGED table
  PROVE  IPids'
<1>. USE DEF IPids, Active, Alive
<1>0. killer \in [Threads -> Killer] /\ Strays \subseteq Threads
  BY DEF TypeOK, Threads
<1>4. Narrow' => Narrow
  <2>1. \A u \in Threads \ {t} : killer'[u] = killer[u]
    BY <1>0 DEF QueueKill
  <2>. QED BY <1>0, <2>1 DEF Narrow
<1>1. CASE p \in pidset /\ killer' = [killer EXCEPT ![t].at = "done"]
           /\ UNCHANGED <<pidset, unstarted>>
  BY <1>0, <1>1, <1>4 DEF Killer
<1>2. CASE /\ p \notin pidset /\ pidset' = pidset \cup {p}
           /\ killer' = [killer EXCEPT ![t] = [at |-> "check", round |-> 1, pid |-> p]]
           /\ UNCHANGED unstarted
  BY <1>0, <1>2, <1>4 DEF Killer
<1>3. CASE /\ p \notin pidset /\ pidset' = pidset \cup {p}
           /\ unstarted' = unstarted \cup {p}
           /\ killer' = [killer EXCEPT ![t].at = "done"]
  BY <1>0, <1>3, <1>4 DEF Killer
<1>. QED BY <1>1, <1>2, <1>3 DEF QueueKill

\* A step after which the same threads are active, for the same pids.
LEMMA PidsSame ==
  ASSUME IPids, UNCHANGED <<pidset, unstarted>>,
         \A u \in Threads : killer'[u].pid = killer[u].pid,
         \A u \in Threads : Active(u) => Active(u)',
         \A u \in Threads : Active(u)' => Active(u),
         \A u \in Threads : killer'[u].at = "none" => killer[u].at = "none",
         Narrow => \A u \in Threads :
           killer'[u].at = "signal" => table'[killer'[u].pid].state \in Children
  PROVE  IPids'
<1>1. \A p \in pidset \ unstarted : \E t \in Threads : Active(t)' /\ killer'[t].pid = p
  BY DEF IPids
<1>2. \A t, u \in Threads : Active(t)' /\ Active(u)' /\ killer'[t].pid = killer'[u].pid => t = u
  BY DEF IPids
<1>3. \A t \in Threads : Active(t)' => killer'[t].pid \in pidset \ unstarted
  BY DEF IPids
<1>4. Narrow' => Narrow
  BY DEF Narrow, Threads
<1>5. \A t \in Threads : killer'[t].at = "none" => killer'[t].pid = None
  BY DEF IPids
<1>. QED BY <1>1, <1>2, <1>3, <1>4, <1>5 DEF IPids, Alive

LEMMA KillerPids ==
  ASSUME TypeOK, IPids, NEW t \in Threads, KillerStep(t)
  PROVE  IPids'
<1>. USE DEF Active
<1>0. /\ killer \in [Threads -> Killer] /\ table \in [Pids -> Entry]
      /\ \A u \in Threads : Active(u) => killer[u].pid \in Args
      /\ Narrow => \A u \in Threads : Active(u) => killer[u].pid \in Pids
  BY PidsAreArgs DEF TypeOK, Narrow, Threads
\* A killer that goes on, whatever becomes of the entry of its own pid.
<1>1. ASSUME Active(t), NEW place \in {"signal", "remove"}, GoesTo(t, place),
             UNCHANGED <<pidset, unstarted>>,
             Narrow => /\ \A p \in Pids \ {killer[t].pid} : table'[p] = table[p]
                       /\ place = "signal" => table'[killer[t].pid].state \in Children
      PROVE  IPids'
  <2>1. /\ \A u \in Threads : killer'[u].pid = killer[u].pid
        /\ \A u \in Threads \ {t} : killer'[u] = killer[u]
        /\ killer'[t].at = place
    BY <1>0, <1>1 DEF GoesTo, Killer
  <2>2. ASSUME Narrow, NEW u \in Threads, killer'[u].at = "signal"
        PROVE  table'[killer'[u].pid].state \in Children
    <3>1. CASE u = t
      BY <1>1, <2>1, <2>2, <3>1
    <3>2. CASE u # t
      <4>1. killer'[u] = killer[u] /\ killer[u].at = "signal"
        BY <2>1, <2>2, <3>2
      <4>2. killer[u].pid \in Pids \ {killer[t].pid} /\ Alive(killer[u].pid)
        BY <1>0, <1>1, <2>2, <3>2, <4>1 DEF IPids
      <4>3. table'[killer[u].pid] = table[killer[u].pid]
        BY <1>1, <2>2, <4>2
      <4>. QED BY <4>1, <4>2, <4>3 DEF Alive
    <3>. QED BY <3>1, <3>2
  <2>3. \A u \in Threads : (Active(u) => Active(u)') /\ (Active(u)' => Active(u))
    BY <1>1, <2>1
  <2>. QED BY <1>1, <2>1, <2>2, <2>3, PidsSame
<1>2. CASE NoChild(t)
  BY <1>1, <1>2 DEF NoChild, At
<1>3. CASE Reaps(t)
  <2>1. Active(t) /\ GoesTo(t, "remove") /\ UNCHANGED <<pidset, unstarted>>
    BY <1>3 DEF Reaps, Reap, At
  <2>2. ASSUME Narrow PROVE \A p \in Pids \ {killer[t].pid} : table'[p] = table[p]
    BY <1>0, <1>3, <2>1, <2>2, ReachedOne DEF Reaps, Reap
  <2>. QED BY <1>1, <2>1, <2>2
<1>4. ASSUME NEW terminated \in BOOLEAN, StillRuns(t, terminated)
      PROVE  IPids'
  <2>1. /\ Active(t) /\ UNCHANGED <<table, pidset, unstarted>>
        /\ Narrow => Alive(killer[t].pid)
    BY <1>0, <1>4, ReachedOne DEF StillRuns, At
  <2>2. GoesTo(t, IF terminated THEN "remove" ELSE "signal")
    BY <1>4 DEF StillRuns
  <2>3. CASE terminated
    BY <1>1, <2>1, <2>2, <2>3 DEF Alive
  <2>4. CASE ~terminated
    BY <1>1, <2>1, <2>2, <2>4 DEF Alive
  <2>. QED BY <2>3, <2>4
<1>5. CASE Signal(t)
  <2>2. \/ killer' = [killer EXCEPT ![t].at = "check", ![t].round = @ + 1]
        \/ killer' = [killer EXCEPT ![t].at = "remove"]
    BY <1>5 DEF Signal
  <2>3. /\ \A u \in Threads : killer'[u].pid = killer[u].pid
        /\ \A u \in Threads \ {t} : killer'[u] = killer[u]
        /\ killer'[t].at \in {"check", "remove"} /\ killer[t].at = "signal"
    BY <1>0, <1>5, <2>2 DEF Signal, At, Killer
  <2>4. ASSUME Narrow, NEW u \in Threads, killer'[u].at = "signal"
        PROVE  table'[killer'[u].pid].state \in Children
    <3>1. u # t
      BY <2>3, <2>4
    <3>2. killer[u].at = "signal" /\ killer'[u].pid = killer[u].pid
      BY <2>3, <2>4, <3>1
    <3>3. table[killer[u].pid].state \in Children
      BY <2>4, <3>2 DEF IPids, Alive
    <3>. QED BY <1>5, <3>2, <3>3 DEF Signal
  <2>5. \A u \in Threads : (Active(u) => Active(u)') /\ (Active(u)' => Active(u))
    BY <2>3
  <2>. QED BY <1>5, <2>3, <2>4, <2>5, PidsSame DEF Signal
<1>6. CASE SignalKill(t)
  <2>1. Active(t) /\ GoesTo(t, "remove") /\ UNCHANGED <<pidset, unstarted>>
    BY <1>6 DEF SignalKill, At
  <2>2. ASSUME Narrow PROVE \A p \in Pids \ {killer[t].pid} : table'[p] = table[p]
    BY <1>0, <1>6, <2>1, <2>2, ReachedOne DEF SignalKill
  <2>. QED BY <1>1, <2>1, <2>2
<1>7. CASE Remove(t)
  <2>1. /\ killer' \in [Threads -> Killer]
        /\ \A u \in Threads \ {t} : killer'[u] = killer[u]
        /\ killer'[t].at = "done" /\ Active(t) /\ ~Active(t)'
    BY <1>0, <1>7 DEF Remove, At, GoesTo, Killer
  <2>2. Narrow' => Narrow
    BY <1>0, <1>7 DEF Remove, GoesTo, Killer, Narrow, Threads
  <2>. QED BY <1>0, <1>7, <2>1, <2>2 DEF Remove, IPids, Alive
<1>. QED BY <1>2, <1>3, <1>4, <1>5, <1>6, <1>7 DEF KillerStep

LEMMA PidsStep == IInv /\ [Next]_vars => IPids'
<1>. SUFFICES ASSUME IInv, [Next]_vars PROVE IPids'
  OBVIOUS
<1>. USE DEF IInv
<1>1. ASSUME NEW p \in Pids, ShellExits(p) \/ ForeignStarts(p) \/ ForeignExits(p)
      PROVE  IPids'
  <2>1. \A q \in Pids : Alive(q) => Alive(q)'
    BY <1>1 DEF TypeOK, ShellExits, ForeignStarts, ForeignExits, Becomes, Alive, Children, Entry
  <2>. QED BY <1>1, <2>1, PidsAlone DEF ShellExits, ForeignStarts, ForeignExits, Becomes
<1>8. ASSUME NEW p \in Pids, LeavesGroup(p)
      PROVE  IPids'
  BY <1>8, PidsAlone DEF TypeOK, LeavesGroup, Alive, Entry
<1>2. ASSUME NEW s \in Terminals, NEW p \in Pids, Open(s, p)
      PROVE  IPids'
  BY <1>2, PidsAlone DEF TypeOK, Open, Alive, Children, Entry
<1>3. ASSUME NEW s \in Terminals, Left(s)
      PROVE  IPids'
  BY <1>3, PidsAlone DEF Left, Alive
<1>4. ASSUME NEW s \in Terminals, Close(s)
      PROVE  IPids'
  <2>1. s \in Threads /\ killer[s].at = "none" /\ term[s].pid \in Pids
    BY <1>4 DEF ITerms, TypeOK, Close, Threads
  <2>. QED BY <1>4, <2>1, QueueKillPids, PidsAreArgs DEF Close
<1>5. ASSUME NEW t \in Strays, NEW a \in Args, Stray(t, a)
      PROVE  IPids'
  BY <1>5, QueueKillPids DEF Stray, Threads
<1>6. ASSUME NEW t \in Threads, KillerStep(t)
      PROVE  IPids'
  BY <1>6, KillerPids
<1>7. CASE Cleanup \/ Exit \/ Ended \/ UNCHANGED vars
  BY <1>7, PidsAlone DEF Cleanup, Exit, Ended, vars, Alive
<1>. QED BY <1>1, <1>2, <1>3, <1>4, <1>5, <1>6, <1>7, <1>8 DEF Next
(***************************************************************************)
(* The terminals                                                           *)
(***************************************************************************)
LEMMA TermsInit == Init => ITerms
<1>. SUFFICES ASSUME Init PROVE ITerms
  OBVIOUS
<1>1. \A s \in Terminals : killer[s].at = "none" /\ term[s].is = "new"
  BY DEF Init, Idle, Threads
<1>. QED BY <1>1 DEF ITerms, PursuedUnlessLost

\* A killer pursues the shell of s.
Pursues(s) == killer[s].at \in {"check", "signal"} /\ killer[s].pid = term[s].pid

\* The environment starts no shell and changes no thread.
LEMMA TermsAlone ==
  ASSUME ITerms, UNCHANGED <<term, killer, lost>>,
         \A s \in Terminals : Runs(s)' => Runs(s)
  PROVE  ITerms'
  BY DEF ITerms, PursuedUnlessLost

\* A thread that is not a terminal's is no concern of ITerms.
LEMMA TermsQueue ==
  ASSUME TypeOK, ITerms, NEW t \in Threads, NEW p \in Args, QueueKill(t, p), UNCHANGED table,
         \A s \in Terminals \ {t} : term'[s] = term[s],
         t \in Terminals => term'[t].is = "closed" /\ term'[t].pid = p
  PROVE  ITerms'
<1>. SUFFICES ASSUME NEW s \in Terminals
              PROVE  /\ term'[s].is # "closed" => killer'[s].at = "none"
                     /\ term'[s].is = "closed" /\ Runs(s)' /\ lost'[s] = "no"
                          => Pursues(s)'
  BY DEF ITerms, PursuedUnlessLost, Pursues
<1>0. killer \in [Threads -> Killer] /\ lost \in [Terminals -> {"no", "mistaken", "missed", "unstarted"}]
      /\ s \in Threads
  BY DEF TypeOK, Threads
<1>1. CASE s # t
  <2>1. killer'[s] = killer[s] /\ lost'[s] = lost[s] /\ term'[s] = term[s]
    BY <1>0, <1>1 DEF QueueKill, Loses
  <2>. QED BY <2>1 DEF ITerms, PursuedUnlessLost, Pursues, Runs
<1>2. CASE s = t
  <2>1. CASE lost' = [lost EXCEPT ![t] = "missed"] \/ lost' = [lost EXCEPT ![t] = "unstarted"]
    BY <1>0, <1>2, <2>1
  <2>2. CASE killer' = [killer EXCEPT ![t] = [at |-> "check", round |-> 1, pid |-> p]]
    BY <1>0, <1>2, <2>2 DEF Pursues
  <2>. QED BY <1>2, <2>1, <2>2 DEF QueueKill, Loses
<1>. QED BY <1>1, <1>2

\* A thread's step matters to its own terminal alone: it goes on after the shell,
\* or the shell does not run, or it is lost.
LEMMA TermsKiller ==
  ASSUME TypeOK, ITerms, NEW t \in Threads, KillerStep(t)
  PROVE  ITerms'
<1>0. killer \in [Threads -> Killer] /\ table \in [Pids -> Entry]
      /\ (t \in Terminals /\ Active(t) => killer[t].pid \in Pids)
      /\ lost \in [Terminals -> {"no", "mistaken", "missed", "unstarted"}]
  BY PidsAreArgs DEF TypeOK, Active
<1>1. /\ Active(t) /\ UNCHANGED term
      /\ killer' \in [Threads -> Killer] /\ killer'[t].pid = killer[t].pid
      /\ \A u \in Threads \ {t} : killer'[u] = killer[u]
  <2>1. \A place \in {"signal", "remove", "done"} : GoesTo(t, place) =>
          /\ killer' \in [Threads -> Killer] /\ killer'[t].pid = killer[t].pid
          /\ \A u \in Threads \ {t} : killer'[u] = killer[u]
    BY <1>0 DEF GoesTo, Killer
  <2>2. CASE Signal(t)
    <3>1. killer' \in [Threads -> Killer]
      BY <2>2, KillerTypes DEF TypeOK
    <3>. QED BY <1>0, <2>2, <3>1 DEF Signal, Active, At, Killer
  <2>. QED BY <2>1, <2>2 DEF KillerStep, NoChild, Reaps, Reap, StillRuns, SignalKill, Remove,
                             Active, At
<1>2. \A s \in Terminals : Runs(s)' => Runs(s)
  <2>1. CASE table' = table
    BY <1>1, <2>1 DEF Runs
  <2>2. CASE Reaps(t)
    BY <1>0, <1>1, <2>2 DEF Runs, Reaps, Reap, Free
  <2>3. CASE SignalKill(t)
    BY <1>0, <1>1, <2>3 DEF Runs, SignalKill, Entry
  <2>. QED BY <2>1, <2>2, <2>3 DEF KillerStep, NoChild, StillRuns, Signal, Remove
<1>3. ASSUME NEW s \in Terminals, s # t
      PROVE  killer'[s] = killer[s] /\ lost'[s] = lost[s]
  <2>1. lost'[s] = lost[s]
    BY <1>0, <1>3
       DEF KillerStep, NoChild, Reaps, Reap, StillRuns, Signal, SignalKill, Remove, Loses
  <2>. QED BY <1>1, <1>3, <2>1 DEF Threads
<1>4. ASSUME t \in Terminals, Pursues(t), Runs(t)', lost'[t] = "no"
      PROVE  killer'[t].at \in {"check", "signal"}
  <2>1. table[killer[t].pid].state = "running" /\ table'[killer[t].pid].state = "running"
    BY <1>1, <1>2, <1>4 DEF Runs, Pursues
  <2>0. killer[t].pid \in Pids /\ Reached(killer[t].pid) = {killer[t].pid}
    BY <1>0, <1>1, <1>4, <2>1, ReachedOne DEF Alive, Children
  <2>2. ~NoChild(t) /\ ~Reaps(t) /\ ~Remove(t)
    BY <1>4, <2>0, <2>1 DEF NoChild, Reaps, Reap, Remove, At, Pursues
  <2>3. ~SignalKill(t)
    BY <1>0, <1>1, <2>0, <2>1 DEF SignalKill, Entry
  <2>4. ASSUME Signal(t) PROVE killer'[t].at = "check"
    <3>1. Sent(killer[t].pid) = {TRUE}
      BY <2>0 DEF Sent
    <3>2. killer' = [killer EXCEPT ![t].at = "check", ![t].round = @ + 1]
      BY <2>4, <3>1 DEF Signal
    <3>. QED BY <1>0, <3>2 DEF Killer
  <2>5. ASSUME NEW terminated \in BOOLEAN, StillRuns(t, terminated)
        PROVE  killer'[t].at = "signal"
    <3>1. ~terminated
      BY <1>0, <1>4, <2>5 DEF StillRuns, Loses
    <3>. QED BY <1>0, <2>5, <3>1 DEF StillRuns, GoesTo, Killer
  <2>. QED BY <2>2, <2>3, <2>4, <2>5 DEF KillerStep
<1>5. t \in Terminals => term[t].is = "closed" /\ (lost'[t] = "no" => lost[t] = "no")
  <2>1. t \in Terminals => term[t].is = "closed"
    BY <1>1 DEF ITerms, Active
  <2>. QED BY <1>0, <2>1
       DEF KillerStep, NoChild, Reaps, Reap, StillRuns, Signal, SignalKill, Remove, Loses
<1>6. ASSUME NEW s \in Terminals
      PROVE  /\ term'[s].is # "closed" => killer'[s].at = "none"
             /\ term'[s].is = "closed" /\ Runs(s)' /\ lost'[s] = "no" => Pursues(s)'
  <2>1. CASE s # t
    BY <1>1, <1>2, <1>3, <2>1 DEF ITerms, PursuedUnlessLost, Pursues
  <2>2. CASE s = t
    BY <1>1, <1>2, <1>4, <1>5, <2>2 DEF ITerms, PursuedUnlessLost, Pursues
  <2>. QED BY <2>1, <2>2
<1>. QED BY <1>6 DEF ITerms, PursuedUnlessLost, Pursues

LEMMA TermsStep == IInv /\ [Next]_vars => ITerms'
<1>. SUFFICES ASSUME IInv, [Next]_vars PROVE ITerms'
  OBVIOUS
<1>. USE DEF IInv
<1>1. ASSUME NEW p \in Pids, ShellExits(p) \/ ForeignStarts(p) \/ ForeignExits(p)
      PROVE  ITerms'
  <2>1. /\ UNCHANGED <<term, killer, lost>>
        /\ \E to \in {"zombie", "foreign", "free"} : table' = [table EXCEPT ![p].state = to]
    BY <1>1 DEF ShellExits, ForeignStarts, ForeignExits, Becomes
  <2>2. \A s \in Terminals : Runs(s)' => Runs(s)
    BY <2>1 DEF TypeOK, Entry, Runs
  <2>. QED BY <2>1, <2>2, TermsAlone
<1>8. ASSUME NEW p \in Pids, LeavesGroup(p)
      PROVE  ITerms'
  BY <1>8, TermsAlone DEF TypeOK, LeavesGroup, Runs, Entry
<1>2. ASSUME NEW s \in Terminals, NEW p \in Pids, Open(s, p)
      PROVE  ITerms'
  <2>1. /\ \A u \in Terminals \ {s} : term'[u] = term[u] /\ (Runs(u)' => Runs(u))
        /\ term[s].is = "new" /\ term'[s].is = "open"
    BY <1>2 DEF TypeOK, Open, Terminal, Entry, Runs
  <2>. QED BY <1>2, <2>1 DEF Open, ITerms, PursuedUnlessLost
<1>3. ASSUME NEW s \in Terminals, Left(s)
      PROVE  ITerms'
  <2>1. \A u \in Terminals : /\ term'[u].is = "closed" <=> term[u].is = "closed"
                             /\ term'[u].pid = term[u].pid
    BY <1>3 DEF TypeOK, Left, Terminal
  <2>. QED BY <1>3, <2>1 DEF Left, ITerms, PursuedUnlessLost, Runs
<1>4. ASSUME NEW s \in Terminals, Close(s)
      PROVE  ITerms'
  <2>1. /\ s \in Threads /\ term[s].pid \in Pids /\ QueueKill(s, term[s].pid) /\ UNCHANGED table
        /\ \A u \in Terminals \ {s} : term'[u] = term[u]
        /\ term'[s].is = "closed" /\ term'[s].pid = term[s].pid
    BY <1>4 DEF TypeOK, Close, Threads, Terminal
  <2>. QED BY <2>1, TermsQueue, PidsAreArgs
<1>5. ASSUME NEW t \in Strays, NEW a \in Args, Stray(t, a)
      PROVE  ITerms'
  <2>1. t \in Threads /\ t \notin Terminals
    BY KillerAssumption DEF Threads
  <2>. QED BY <1>5, <2>1, TermsQueue DEF Stray
<1>6. ASSUME NEW t \in Threads, KillerStep(t)
      PROVE  ITerms'
  BY <1>6, TermsKiller
<1>7. CASE Cleanup \/ Exit \/ Ended \/ UNCHANGED vars
  BY <1>7, TermsAlone DEF Cleanup, Exit, Ended, vars, Runs
<1>. QED BY <1>1, <1>2, <1>3, <1>4, <1>5, <1>6, <1>7, <1>8 DEF Next
(***************************************************************************)
(* Theorems                                                                *)
(***************************************************************************)
\* The inductive invariant.
THEOREM Invariance == Spec => []IInv
<1>1. Init => IInv
  BY TypeInit, PidsInit, TermsInit DEF IInv
<1>2. IInv /\ [Next]_vars => IInv'
  BY TypeStep, PidsStep, TermsStep DEF IInv
<1>. QED BY <1>1, <1>2, PTL DEF Spec

\* Every variable keeps its type.
THEOREM TypeCorrect == Spec => []TypeOK
<1>1. IInv => TypeOK
  BY DEF IInv
<1>. QED BY <1>1, Invariance, PTL

\* pidset holds the pids the threads are after and those no thread could be
\* created for, and no two threads are after one pid.
THEOREM PidsetExact == Spec => []PidsetIsKillers
<1>1. IInv => PidsetIsKillers
  <2>1. SUFFICES ASSUME IInv PROVE PidsetIsKillers
    OBVIOUS
  <2>2. ASSUME NEW p \in Args
        PROVE  p \in pidset <=> (p \in unstarted \/ \E t \in Threads : Active(t) /\ killer[t].pid = p)
    BY <2>1 DEF IInv, IPids
  <2>. QED BY <2>1, <2>2 DEF IInv, IPids, PidsetIsKillers
<1>. QED BY <1>1, Invariance, PTL

\* Until queue_kill is given a number that stands for several processes no signal is
\* sent to a pid the kernel may have given away.
THEOREM ChildrenSignalled == Spec => []SignalsReachChildren
<1>1. IInv => SignalsReachChildren
  BY DEF IInv, IPids, Alive, Children, SignalsReachChildren
<1>. QED BY <1>1, Invariance, PTL

\* The shell of a closed terminal is pursued until it ends or is lost in one of
\* three ways.
THEOREM Pursued == Spec => []PursuedUnlessLost
<1>1. IInv => PursuedUnlessLost
  BY DEF IInv, ITerms
<1>. QED BY <1>1, Invariance, PTL

LEMMA OwnInit == Init => IOwn
<1>. SUFFICES ASSUME Init PROVE IOwn
  OBVIOUS
<1>1. \A s \in Terminals : killer[s].at = "none" /\ term[s].is = "new"
  BY DEF Init, Idle, Threads
<1>. QED BY <1>1 DEF IOwn

\* A step that takes no child from its terminal, starts no killer and opens nothing.
LEMMA OwnAlone ==
  ASSUME IOwn, \A s \in Terminals, p \in Pids : ShellOf(s, p) => ShellOf(s, p)',
         TypeOK,
         \A s \in Terminals : term'[s].is = "open" => term'[s] = term[s],
         \A s \in Terminals :
           killer'[s].at \in {"check", "signal"} =>
             killer[s].at \in {"check", "signal"} /\ killer'[s].pid = killer[s].pid
  PROVE  IOwn'
<1>1. ASSUME NEW s \in Terminals, term'[s].is = "open"
      PROVE  ShellOf(s, term[s].pid)'
  BY <1>1 DEF IOwn, TypeOK
<1>2. ASSUME NEW s \in Terminals, killer'[s].at \in {"check", "signal"}
      PROVE  ShellOf(s, killer[s].pid)'
  <2>1. killer[s].pid \in Pids /\ ShellOf(s, killer[s].pid) /\ killer'[s].pid = killer[s].pid
    BY <1>2 DEF IOwn, TypeOK, Threads
  <2>2. \A p \in Pids : p = killer[s].pid /\ ShellOf(s, p) => ShellOf(s, p)'
    OBVIOUS
  <2>. QED BY <2>1, <2>2 DEF ShellOf, Alive
<1>. QED BY <1>1, <1>2 DEF IOwn

LEMMA OwnKiller ==
  ASSUME Unstrayed, IInv, IOwn, NEW t \in Threads, KillerStep(t)
  PROVE  IOwn'
<1>0. /\ t \in Terminals /\ term[t].is = "closed"
      /\ killer \in [Threads -> Killer] /\ table \in [Pids -> Entry]
      /\ UNCHANGED term
  BY DEF Unstrayed, IInv, ITerms, TypeOK, Threads, KillerStep, NoChild, Reaps, Reap, StillRuns,
         Signal, SignalKill, Remove, At
<1>1. ASSUME NEW s \in Terminals, s # t
      PROVE  killer'[s] = killer[s]
  BY <1>0, <1>1 DEF KillerStep, NoChild, Reaps, Reap, StillRuns, Signal, SignalKill, Remove,
                    GoesTo, Threads
<1>2. CASE UNCHANGED table
  <2>1. killer'[t].pid = killer[t].pid /\ killer[t].at \in {"check", "signal", "remove"}
    BY <1>0 DEF KillerStep, NoChild, Reaps, Reap, StillRuns, Signal, SignalKill, Remove, GoesTo,
                At, Killer
  <2>2. killer[t].at = "remove" => killer'[t].at = "done"
    BY <1>0 DEF KillerStep, NoChild, Reaps, Reap, StillRuns, Signal, SignalKill, Remove, GoesTo,
                At, Killer
  <2>3. \A s \in Terminals, p \in Pids : ShellOf(s, p) => ShellOf(s, p)'
    BY <1>2 DEF ShellOf, Alive
  <2>. QED BY <1>0, <1>1, <2>1, <2>2, <2>3, OwnAlone DEF IInv
<1>3. CASE Reaps(t) \/ SignalKill(t)
  <2>0. /\ killer'[t].at = "remove" /\ killer[t].at \in {"check", "signal"}
        /\ killer[t].pid \in Pids
    BY <1>0, <1>3, PidsAreArgs DEF Reaps, Reap, SignalKill, At, GoesTo, Killer, IInv, TypeOK
  <2>1. /\ killer'[t].at = "remove" /\ table[killer[t].pid].of = t
        /\ killer[t].pid \in Pids
        /\ \A p \in Pids \ {killer[t].pid} : table'[p] = table[p]
    BY <1>0, <1>3, <2>0, ReachedOne DEF Reaps, Reap, SignalKill, IOwn, ShellOf, IInv
  <2>2. ASSUME NEW s \in Terminals \ {t}, NEW p \in Pids, ShellOf(s, p)
        PROVE  ShellOf(s, p)'
    BY <2>1, <2>2 DEF ShellOf, Alive
  <2>3. ASSUME NEW s \in Terminals, term'[s].is = "open"
        PROVE  ShellOf(s, term[s].pid)'
    <3>1. s # t /\ term[s].pid \in Pids /\ ShellOf(s, term[s].pid)
      BY <1>0, <2>3 DEF IOwn, IInv, TypeOK
    <3>2. \A p \in Pids : p = term[s].pid /\ ShellOf(s, p) => ShellOf(s, p)'
      BY <2>2, <3>1
    <3>. QED BY <1>0, <3>1, <3>2 DEF ShellOf, Alive
  <2>4. ASSUME NEW s \in Terminals, killer'[s].at \in {"check", "signal"}
        PROVE  ShellOf(s, killer[s].pid)'
    <3>1. /\ s # t /\ killer'[s] = killer[s]
          /\ killer[s].pid \in Pids /\ ShellOf(s, killer[s].pid)
      BY <1>1, <2>1, <2>4 DEF IOwn, IInv, TypeOK, Threads
    <3>2. \A p \in Pids : p = killer[s].pid /\ ShellOf(s, p) => ShellOf(s, p)'
      BY <2>2, <3>1
    <3>. QED BY <3>1, <3>2 DEF ShellOf, Alive
  <2>. QED BY <2>3, <2>4 DEF IOwn
<1>. QED BY <1>2, <1>3 DEF KillerStep, NoChild, StillRuns, Signal, Remove

\* A stray call that has been made has been made for good.
LEMMA StraysStay == IInv /\ [Next]_vars /\ Unstrayed' => Unstrayed
<1>. SUFFICES ASSUME IInv, [Next]_vars, NEW x \in Strays, killer[x].at # "none"
              PROVE  killer'[x].at # "none"
  BY DEF Unstrayed
<1>0. x \in Threads /\ killer \in [Threads -> Killer]
  BY DEF IInv, TypeOK, Threads
<1>1. ASSUME NEW t \in Threads, NEW a \in Args, QueueKill(t, a)
      PROVE  killer'[x].at # "none"
  BY <1>0, <1>1 DEF QueueKill, Killer
<1>2. ASSUME NEW s \in Terminals, Close(s)
      PROVE  killer'[x].at # "none"
  <2>1. term[s].pid \in Pids /\ s \in Threads /\ QueueKill(s, term[s].pid)
    BY <1>2 DEF Close, IInv, TypeOK, Threads
  <2>. QED BY <2>1, <1>1, PidsAreArgs
<1>3. ASSUME NEW t \in Strays, NEW a \in Args, Stray(t, a)
      PROVE  killer'[x].at # "none"
  BY <1>1, <1>3 DEF Stray, Threads
<1>4. ASSUME NEW t \in Threads, KillerStep(t)
      PROVE  killer'[x].at # "none"
  BY <1>0, <1>4 DEF KillerStep, NoChild, Reaps, Reap, StillRuns, Signal, SignalKill, Remove,
                    GoesTo, Killer
<1>5. ASSUME UNCHANGED killer
      PROVE  killer'[x].at # "none"
  BY <1>5
<1>. QED BY <1>2, <1>3, <1>4, <1>5
       DEF Next, ShellExits, LeavesGroup, ForeignStarts, ForeignExits, Becomes, Left, Open, Cleanup, Exit,
           Ended, vars

LEMMA OwnStep == Unstrayed' /\ IInv /\ IOwn /\ [Next]_vars => IOwn'
<1>. SUFFICES ASSUME Unstrayed', IInv, IOwn, [Next]_vars PROVE IOwn'
  OBVIOUS
<1>0. Unstrayed
  BY StraysStay
<1>. USE DEF IInv
<1>1. ASSUME NEW p \in Pids, ShellExits(p) \/ ForeignStarts(p) \/ ForeignExits(p)
      PROVE  IOwn'
  <2>1. \A s \in Terminals, q \in Pids : ShellOf(s, q) => ShellOf(s, q)'
    BY <1>1 DEF TypeOK, ShellExits, ForeignStarts, ForeignExits, Becomes, Entry, ShellOf,
                Alive, Children
  <2>. QED BY <1>1, <2>1, OwnAlone DEF ShellExits, ForeignStarts, ForeignExits, Becomes
<1>8. ASSUME NEW p \in Pids, LeavesGroup(p)
      PROVE  IOwn'
  <2>1. \A s \in Terminals, q \in Pids : ShellOf(s, q) => ShellOf(s, q)'
    BY <1>8 DEF TypeOK, LeavesGroup, Entry, ShellOf, Alive, Children
  <2>. QED BY <1>8, <2>1, OwnAlone DEF LeavesGroup
<1>2. ASSUME NEW s \in Terminals, NEW p \in Pids, Open(s, p)
      PROVE  IOwn'
  <2>1. /\ ShellOf(s, p)' /\ term'[s].pid = p
        /\ \A u \in Terminals, q \in Pids : ShellOf(u, q) => ShellOf(u, q)'
        /\ \A u \in Terminals \ {s} : term'[u] = term[u]
        /\ UNCHANGED killer
    BY <1>2 DEF TypeOK, Open, Terminal, Entry, ShellOf, Alive, Children
  <2>2. ASSUME NEW u \in Terminals, term'[u].is = "open"
        PROVE  ShellOf(u, term[u].pid)'
    <3>1. CASE u = s
      BY <2>1, <3>1 DEF ShellOf, Alive
    <3>2. CASE u # s
      <4>1. term[u].pid \in Pids /\ ShellOf(u, term[u].pid)
        BY <2>1, <2>2, <3>2 DEF IOwn, TypeOK
      <4>. QED BY <2>1, <3>2, <4>1 DEF ShellOf, Alive
    <3>. QED BY <3>1, <3>2
  <2>3. ASSUME NEW u \in Terminals, killer'[u].at \in {"check", "signal"}
        PROVE  ShellOf(u, killer[u].pid)'
    <3>1. killer[u].pid \in Pids /\ ShellOf(u, killer[u].pid)
      BY <2>1, <2>3 DEF IOwn, TypeOK, Threads
    <3>. QED BY <2>1, <3>1 DEF ShellOf, Alive
  <2>. QED BY <2>2, <2>3 DEF IOwn
<1>3. ASSUME NEW s \in Terminals, Left(s)
      PROVE  IOwn'
  <2>1. \A u \in Terminals : term'[u].is = "open" => term'[u] = term[u]
    BY <1>3 DEF TypeOK, Left, Terminal
  <2>2. \A u \in Terminals, q \in Pids : ShellOf(u, q) => ShellOf(u, q)'
    BY <1>3 DEF Left, ShellOf, Alive
  <2>. QED BY <1>3, <2>1, <2>2, OwnAlone DEF Left
<1>4. ASSUME NEW s \in Terminals, Close(s)
      PROVE  IOwn'
  <2>1. /\ s \in Threads /\ ShellOf(s, term[s].pid) /\ UNCHANGED table
        /\ \A u \in Terminals : term'[u].is = "open" => term'[u] = term[u]
    BY <1>4 DEF TypeOK, Close, Threads, Terminal, IOwn
  <2>2. \A u \in Terminals : killer'[u].at \in {"check", "signal"} =>
          killer'[u] = killer[u] \/ (u = s /\ killer'[u].pid = term[s].pid)
    <3>0. killer \in [Threads -> Killer] /\ s \in Threads /\ \A u \in Terminals : u \in Threads
      BY DEF TypeOK, Threads
    <3>1. CASE killer' = [killer EXCEPT ![s].at = "done"]
      <4>1. killer'[s].at = "done" /\ \A u \in Terminals \ {s} : killer'[u] = killer[u]
        BY <3>0, <3>1 DEF Killer
      <4>. QED BY <4>1
    <3>2. CASE killer' = [killer EXCEPT ![s] = [at |-> "check", round |-> 1, pid |-> term[s].pid]]
      <4>1. killer'[s].pid = term[s].pid /\ \A u \in Terminals \ {s} : killer'[u] = killer[u]
        BY <3>0, <3>2
      <4>. QED BY <4>1
    <3>. QED BY <1>4, <3>1, <3>2 DEF Close, QueueKill
  <2>3. ASSUME NEW u \in Terminals, term'[u].is = "open"
        PROVE  ShellOf(u, term[u].pid)'
    BY <2>1, <2>3 DEF IOwn, ShellOf, Alive
  <2>4. ASSUME NEW u \in Terminals, killer'[u].at \in {"check", "signal"}
        PROVE  ShellOf(u, killer[u].pid)'
    BY <2>1, <2>2, <2>4 DEF IOwn, ShellOf, Alive
  <2>. QED BY <2>3, <2>4 DEF IOwn
<1>5. ASSUME NEW t \in Threads, KillerStep(t)
      PROVE  IOwn'
  BY <1>0, <1>5, OwnKiller
<1>6. CASE Cleanup \/ Exit \/ Ended \/ UNCHANGED vars
  <2>1. UNCHANGED <<table, term, killer>>
    BY <1>6 DEF Cleanup, Exit, Ended, vars
  <2>2. \A u \in Terminals, q \in Pids : ShellOf(u, q) => ShellOf(u, q)'
    BY <2>1 DEF ShellOf, Alive
  <2>. QED BY <2>1, <2>2, OwnAlone
<1>7. ASSUME NEW t \in Strays, NEW a \in Args, Stray(t, a)
      PROVE  FALSE
  <2>1. killer \in [Threads -> Killer] /\ t \in Threads
    BY DEF TypeOK, Threads
  <2>2. killer'[t].at # "none"
    BY <1>7, <2>1 DEF Stray, QueueKill, Killer
  <2>. QED BY <2>2 DEF Unstrayed
<1>. QED BY <1>1, <1>2, <1>3, <1>4, <1>5, <1>6, <1>7, <1>8 DEF Next

\* A killer started for a terminal signals the shell of that terminal, whatever pids
\* come back, until queue_kill is called with a stray pid.
THEOREM OwnShellSignalled == Spec => []SignalsItsShell
<1> DEFINE Owned == Unstrayed => IOwn
<1>1. IInv /\ Owned => SignalsItsShell
  BY DEF IInv, IOwn, ITerms, ShellOf, SignalsItsShell, Unstrayed
<1>2. IInv /\ Owned /\ [Next]_vars => Owned'
  BY OwnStep, StraysStay
<1>3. Init => Owned
  BY OwnInit
<1> HIDE DEF Owned
<1>. QED BY <1>1, <1>2, <1>3, Invariance, PTL DEF Spec
=============================================================================
