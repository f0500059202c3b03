---------------------------- MODULE SourcePlatforms ----------------------------
(***************************************************************************)
(* The status of the source platforms (source_platforms in                 *)
(* runtime/core/src/db): updateStatus of the platform repository, which    *)
(* reads, checks, writes and reads again in separate statements, and the   *)
(* seed that every start of the program runs.                              *)
(***************************************************************************)
EXTENDS Integers, FiniteSets

CONSTANTS
  Platforms,  \* the rows of source_platforms
  Local,      \* the platform the seed makes
  Updaters,   \* calls of updateStatus
  None

ASSUME PlatformsAssumption == Local \in Platforms /\ None \notin Platforms

VARIABLES
  status,  \* status[p]: the status column of p's row
  at,      \* at[u]: the statement call u is about to run
  target,  \* target[u]: the platform u was given
  wanted,  \* wanted[u]: the status u was given
  answer,  \* answer[u]: the status or the error code u returned
  held     \* held[u]: the statuses target[u] has had since u read it

updateVars == <<at, target, wanted, answer, held>>
platformVars == <<status, at, target, wanted, answer, held>>

Statuses == {"active", "disabled", "deprecated"}

InitPlatforms ==
  /\ status \in [Platforms -> Statuses]
  /\ status[Local] = "active"
  /\ at = [u \in Updaters |-> "idle"]
  /\ target = [u \in Updaters |-> None]
  /\ wanted = [u \in Updaters |-> None]
  /\ answer = [u \in Updaters |-> None]
  /\ held = [u \in Updaters |-> {}]

\* Mutant: any change is allowed that is not to the status before active.
Allowed_Reactivates(from, to) ==
  \/ from = to
  \/ from = "active" /\ to \in {"disabled", "deprecated"}
  \/ from # "active" /\ to \in {"active", "deprecated"}

Allowed(from, to) ==
  \/ from = to
  \/ from = "active" /\ to \in {"disabled", "deprecated"}
  \/ from = "disabled" /\ to \in {"active", "deprecated"}

UpdateEnds(u, value) ==
  /\ at' = [at EXCEPT ![u] = "done"]
  /\ answer' = [answer EXCEPT ![u] = value]

BeginUpdate(u) ==
  /\ at[u] = "idle"
  /\ \E p \in Platforms, s \in Statuses :
        /\ Allowed(status[p], s)
        /\ target' = [target EXCEPT ![u] = p]
        /\ wanted' = [wanted EXCEPT ![u] = s]
        /\ held' = [held EXCEPT ![u] = {status[p]}]
  /\ at' = [at EXCEPT ![u] = "write"]
  /\ UNCHANGED <<status, answer>>

\* There is no such platform, or its status does not allow the change.
RefuseUpdate(u) ==
  /\ at[u] = "idle"
  /\ \/ UpdateEnds(u, "NOT_FOUND")
     \/ /\ \E p \in Platforms, s \in Statuses : ~Allowed(status[p], s)
        /\ UpdateEnds(u, "VALIDATION_ERROR")
  /\ UNCHANGED <<status, target, wanted, held>>

\* The write does not look at the status again.
WriteStatus(u) ==
  /\ at[u] = "write"
  /\ status' = [status EXCEPT ![target[u]] = wanted[u]]
  /\ held' = [v \in Updaters |->
                IF at[v] \in {"write", "refresh"} /\ target[v] = target[u]
                THEN held[v] \cup {wanted[u]} ELSE held[v]]
  /\ at' = [at EXCEPT ![u] = "refresh"]
  /\ UNCHANGED <<target, wanted, answer>>

Refresh(u) ==
  /\ at[u] = "refresh"
  /\ UpdateEnds(u, status[target[u]])
  /\ UNCHANGED <<status, target, wanted, held>>

\* Mutant: the driver's error is not turned into one of the core's.
UpdateFails_Raw(u) ==
  /\ at[u] \in {"idle", "write", "refresh"}
  /\ UpdateEnds(u, "SQLITE_ERROR")
  /\ UNCHANGED <<status, target, wanted, held>>

UpdateFails(u) ==
  /\ at[u] \in {"idle", "write", "refresh"}
  /\ UpdateEnds(u, "INTERNAL_ERROR")
  /\ UNCHANGED <<status, target, wanted, held>>

ForgetUpdates(U) ==
  /\ at' = [u \in Updaters |-> IF u \in U THEN "idle" ELSE at[u]]
  /\ target' = [u \in Updaters |-> IF u \in U THEN None ELSE target[u]]
  /\ wanted' = [u \in Updaters |-> IF u \in U THEN None ELSE wanted[u]]
  /\ answer' = [u \in Updaters |-> IF u \in U THEN None ELSE answer[u]]
  /\ held' = [u \in Updaters |-> IF u \in U THEN {} ELSE held[u]]

UpdateReturned(u) ==
  /\ at[u] = "done"
  /\ ForgetUpdates({u})
  /\ UNCHANGED status

\* The process ends, wherever its calls are; the next start seeds the local platform.
Restart ==
  /\ ForgetUpdates(Updaters)
  /\ status' = [status EXCEPT ![Local] = "active"]

PlatformStep(u) ==
  \/ BeginUpdate(u) \/ RefuseUpdate(u) \/ WriteStatus(u) \/ Refresh(u)
  \/ UpdateFails(u) \/ UpdateReturned(u)

-----------------------------------------------------------------------------
(* Properties. *)

\* Every variable has its type.
PlatformsTypeOK ==
  /\ status \in [Platforms -> Statuses]
  /\ at \in [Updaters -> {"idle", "write", "refresh", "done"}]
  /\ target \in [Updaters -> Platforms \cup {None}]
  /\ wanted \in [Updaters -> Statuses \cup {None}]
  /\ answer \in [Updaters -> Statuses \cup {None, "NOT_FOUND", "VALIDATION_ERROR", "INTERNAL_ERROR"}]
  /\ held \in [Updaters -> SUBSET Statuses]

Undeprecated(p) == status[p] = "deprecated" /\ status'[p] # "deprecated"

\* A deprecation is only undone by the write of an update that read the platform before
\* it was deprecated, or by the seed of the local platform: updateStatus alone, or one
\* update after another, never does it.
DeprecationStands ==
  [][\A p \in Platforms : Undeprecated(p) =>
       \/ p = Local /\ Restart
       \/ \E u \in Updaters : /\ WriteStatus(u) /\ target[u] = p
                              /\ "deprecated" \in held[u]
                              /\ held[u] \ {"deprecated"} # {}]_platformVars
=============================================================================
