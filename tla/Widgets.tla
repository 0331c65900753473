------------------------------- MODULE Widgets ------------------------------
(***************************************************************************)
(* OS UNIX+ System V/Semaphores/laboratory work #33: three makers add      *)
(* details of the kinds A, B and C, counted by a set of three System V     *)
(* semaphores, and a widget maker takes one of each in a single semop.     *)
(* SIGINT makes it remove the set and end.  Killed, as by SIGINT before    *)
(* the handler is there, it leaves the set, and may be started again.      *)
(***************************************************************************)
EXTENDS Integers

CONSTANTS SEMVMX,     \* the largest value of a semaphore
          DetailsMax  \* bound: the details made of each kind

Kinds == {"A", "B", "C"}

VARIABLES
    maker,           \* the widget maker: its next call
    parts,           \* the set: "none", "there" or "removed"
    count,           \* its values
    detail_maker,    \* the next call of each detail maker
    details,         \* details made of each kind
    lost,            \* of these, what a widget maker that starts resets
    widgets

widgetVars == <<maker, parts, count, detail_maker, details, lost, widgets>>

Init == /\ maker = "semget" /\ detail_maker = [k \in Kinds |-> "semget"]
        /\ parts = "none"
        /\ count = [k \in Kinds |-> 0] /\ details = count /\ lost = count
        /\ widgets = 0

-----------------------------------------------------------------------------
MakeSet == /\ maker = "semget" /\ maker' = "SETALL"
           /\ parts' = "there"
           /\ UNCHANGED <<count, detail_maker, details, lost, widgets>>

\* The details that are there already are forgotten.
SetAll == /\ maker = "SETALL" /\ maker' = "signal"
          /\ lost' = [k \in Kinds |-> lost[k] + count[k]]
          /\ count' = [k \in Kinds |-> 0]
          /\ UNCHANGED <<parts, detail_maker, details, widgets>>

InstallHandler == /\ maker = "signal" /\ maker' = "semop"
                  /\ UNCHANGED <<parts, count, detail_maker, details, lost, widgets>>

\* Mutant: the three operations are not one, and B is not waited for.
TakeTwo == /\ maker = "semop" /\ \A k \in Kinds \ {"B"} : count[k] > 0
           /\ count' = [k \in Kinds |-> IF count[k] > 0 THEN count[k] - 1 ELSE 0]
           /\ widgets' = widgets + 1
           /\ UNCHANGED <<maker, parts, detail_maker, details, lost>>

\* One semop takes a detail of every kind, or waits and takes none.
AddWidget == /\ maker = "semop" /\ \A k \in Kinds : count[k] > 0
             /\ count' = [k \in Kinds |-> count[k] - 1]
             /\ widgets' = widgets + 1
             /\ UNCHANGED <<maker, parts, detail_maker, details, lost>>

\* SIGINT with its handler.
Interrupt == /\ maker = "semop" /\ maker' = "ended"
             /\ parts' = "removed"
             /\ UNCHANGED <<count, detail_maker, details, lost, widgets>>

\* SIGINT before that, or another signal at any time.
Kill == /\ maker \notin {"ended", "killed"} /\ maker' = "killed"
        /\ UNCHANGED <<parts, count, detail_maker, details, lost, widgets>>

Restart == /\ maker = "killed" /\ maker' = "semget"
           /\ UNCHANGED <<parts, count, detail_maker, details, lost, widgets>>

-----------------------------------------------------------------------------
FindSet(k) == /\ detail_maker[k] = "semget"
              /\ detail_maker' = [detail_maker EXCEPT
                                     ![k] = IF parts = "there" THEN "semop" ELSE "ended"]
              /\ UNCHANGED <<maker, parts, count, details, lost, widgets>>

AddDetail(k) == /\ detail_maker[k] = "semop" /\ parts = "there"
                /\ count[k] < SEMVMX /\ details[k] < DetailsMax
                /\ count' = [count EXCEPT ![k] = @ + 1]
                /\ details' = [details EXCEPT ![k] = @ + 1]
                /\ UNCHANGED <<maker, parts, detail_maker, lost, widgets>>

\* Mutant: the maker tries again.
TryAgain(k) == FALSE /\ UNCHANGED widgetVars

\* A semop that fails ends the maker: the set is gone, or the value would be
\* out of range.
SemopFails(k) == /\ detail_maker[k] = "semop"
                 /\ parts = "removed" \/ count[k] = SEMVMX
                 /\ detail_maker' = [detail_maker EXCEPT ![k] = "ended"]
                 /\ UNCHANGED <<maker, parts, count, details, lost, widgets>>

KillDetailMaker(k) == /\ detail_maker[k] \notin {"ended", "killed"}
                      /\ detail_maker' = [detail_maker EXCEPT ![k] = "killed"]
                      /\ UNCHANGED <<maker, parts, count, details, lost, widgets>>

\* Nobody need interrupt the widget maker, and makers wait at the bound.
Rest == /\ maker \in {"semop", "killed", "ended"}
        /\ UNCHANGED widgetVars

Next == \/ MakeSet \/ SetAll \/ InstallHandler \/ AddWidget \/ Interrupt \/ Kill \/ Restart
        \/ \E k \in Kinds : FindSet(k) \/ AddDetail(k) \/ SemopFails(k) \/ KillDetailMaker(k)
        \/ Rest

-----------------------------------------------------------------------------
TypeOK == /\ maker \in {"semget", "SETALL", "signal", "semop", "ended", "killed"}
          /\ parts \in {"none", "there", "removed"}
          /\ detail_maker \in [Kinds -> {"semget", "semop", "ended", "killed"}]
          /\ count \in [Kinds -> 0 .. SEMVMX]
          /\ {details, lost} \subseteq [Kinds -> 0 .. DetailsMax]
          /\ widgets \in 0 .. DetailsMax

\* Whoever is killed, every detail is in a widget, waits for one, or was reset by
\* the start of a widget maker; and a maker ends by itself before the set does
\* only if its stock was full once, or it never found the set.
PartsAddUp ==
    \A k \in Kinds :
        /\ details[k] = widgets + count[k] + lost[k]
        /\ parts = "there" /\ detail_maker[k] = "ended" => details[k] \in {0} \cup SEMVMX .. DetailsMax

\* Where the program may stay: details of all kinds become a widget, unless the
\* widget maker is stopped, and no maker outlives the set.
Settled == /\ maker # "semop" \/ \E k \in Kinds : count[k] = 0
           /\ parts = "removed" => \A k \in Kinds : detail_maker[k] # "semop"
=============================================================================
