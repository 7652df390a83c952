-------------------------------- MODULE Desk --------------------------------
(***************************************************************************)
(* What the commands that tend a Vault share: its files, the lock of the   *)
(* Workspace and an editor that never asks for it.  A content is a text    *)
(* (the user's version of it) and, in the MOC, a generated region.  A      *)
(* command takes a `snapshot' of paths by their hashes; a hash is as good  *)
(* as the content.                                                         *)
(***************************************************************************)
EXTENDS Naturals, FiniteSets

CONSTANTS
  Procs,      \* the processes that run commands
  Commands,   \* the commands they may run
  Start,      \* the Vault to start from: path -> content, or None
  Saved,      \* the files that the editor may save
  Removed,    \* and those it may remove
  None,
  MaxRuns, MaxSaves, MaxIncoming, MaxFailures, MaxFaults   \* bounds

VARIABLES
  vault,   \* path -> content
  lock,    \* who holds the lock of the Workspace
  job,     \* where each process is, and its local variables
  count    \* how often each bounded thing has happened

Idle == [at |-> "idle", expected |-> None, plan |-> None, read |-> None, hashed |-> None,
         topology |-> None, notes |-> {},
         beside |-> None]   \* beside: who held the lock when `read' was read, for the properties only

DeskInit ==
  /\ vault = Start /\ lock = None
  /\ job = [p \in Procs |-> Idle]
  /\ count = [runs |-> 0, saves |-> 0, incoming |-> 0, failures |-> 0, faults |-> 0]

At(p, there)   == job[p].at = there
Goto(p, there) == job' = [job EXCEPT ![p].at = there]
Finish(p)      == job' = [job EXCEPT ![p] = Idle]
Tally(what, bound) == count[what] < bound /\ count' = [count EXCEPT ![what] = @ + 1]

Present(S)     == {f \in S : vault[f] # None}
Look(S)        == [f \in S |-> vault[f]]

(* A hash that was taken earlier stands; the others are taken now.         *)
Also(hashed, S) == [f \in DOMAIN hashed \union S |-> IF f \in DOMAIN hashed THEN hashed[f] ELSE vault[f]]
MayRun(p, cmd)  == At(p, "idle") /\ cmd \in Commands /\ Tally("runs", MaxRuns)

(* An editor writes the whole file, each time a text that was never there  *)
(* before, and leaves a region as it was; or it removes the file.          *)
Fresh == 10 + count.saves
Save ==
  /\ Tally("saves", MaxSaves)
  /\ \/ \E f \in Saved :
          LET region == IF vault[f] = None THEN None ELSE vault[f].region
          IN  vault' = [vault EXCEPT ![f] = [text |-> Fresh, region |-> region]]
     \/ \E f \in Present(Removed) : vault' = [vault EXCEPT ![f] = None]
  /\ UNCHANGED <<lock, job>>
=============================================================================
