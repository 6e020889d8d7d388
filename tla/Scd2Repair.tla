----------------------------- MODULE Scd2Repair -----------------------------
(***************************************************************************)
(* The offline repair of the version tables, repair_scd2.py.  Earlier      *)
(* releases left overlapping, inverted and duplicate intervals behind; the *)
(* script rebuilds every interval from valid_from, table by table, each in *)
(* a transaction of its own, moves the starts of first versions, merges    *)
(* versions that a lost write had cut in two, and puts the exclusion       *)
(* constraint on every table that then verifies clean.                     *)
(*                                                                         *)
(* Ids do not interact, so one entity and the one device that some of its  *)
(* versions refer to stand for all of them; areas and labels are repaired  *)
(* like devices but without moves.  A row is a version with its ctid as    *)
(* rid, [from, to) as interval and everything else as pay, but for         *)
(* modified_at, which tells twins apart and which the merge ignores, and   *)
(* created_at, of which only a first version's is read (created).          *)
(* NULL in valid_to or created_at is Open, a value after all times.        *)
(***************************************************************************)
EXTENDS Naturals, FiniteSets, FiniteSetsExt

CONSTANTS
  MaxTime,      \* instants are 0..MaxTime
  MaxRows,      \* versions left behind by earlier releases, both tables together
  MaxDevices,   \* of which in the device table
  Created,      \* the possible created_at of the two registry entries, MaxTime + 1 for none
  MaxRuns,      \* runs of the script, aborted ones included
  Payloads,     \* distinguishable contents of an entity version
  Linked,       \* the payloads whose device_id is the device
  FlagSets,     \* the combinations of opt-in flags the operator may choose
  MergePasses   \* bound of the loop in merge_identical_gaps

ASSUME RepairAssumption ==
  /\ {MaxTime, MaxRows, MaxDevices, MaxRuns, MergePasses} \subseteq Nat
  /\ Linked \subseteq Payloads
  /\ Created \subseteq [entity : 0..(MaxTime + 1), device : 0..(MaxTime + 1)]
  /\ FlagSets \subseteq SUBSET {"collapse", "merge"}

Times == 0..MaxTime
Open == MaxTime + 1
Row == [rid : 1..MaxRows, from : Times, to : Times \cup {Open}, pay : Payloads]

VARIABLES
  entities, devices,  \* the two version tables, committed
  states,             \* the instants at which the entity recorded a state
  created,            \* created_at of the registry entries, per table
  backup,             \* the tables as the last mutating run found them
  quarantine,         \* scd2_repair_quarantine: <<reason, row>>
  enforced,           \* tables that carry the exclusion constraint
  flags,              \* the opt-in flags of the operator
  pc,                 \* "history", "idle" between runs, or the next step of main
  runs, applied       \* runs begun, and runs that came to their end

vars == <<entities, devices, states, created, backup, quarantine, enforced,
          flags, pc, runs, applied>>
-----------------------------------------------------------------------------
(* The order of the versions of one id and what the statements derive from it. *)

\* The window order of the plan: valid_from, open rows last, valid_to, ctid.
Before(a, b) ==
  \/ a.from < b.from
  \/ a.from = b.from /\ a.to < b.to
  \/ a.from = b.from /\ a.to = b.to /\ a.rid < b.rid

After(r, T) == {s \in T : Before(r, s)}
NextFrom(r, T) == Min({s.from : s \in After(r, T)} \cup {Open})   \* lead(valid_from)
IsFirst(r, T) == \A s \in T \ {r} : Before(r, s)
Tied(r, T) == \E s \in T \ {r} : s.from = r.from

\* SCD2_REPAIR_REBUILD: close every version at its successor's start, never later than it was.
Rebuilt(T) == {[r EXCEPT !.to = Min({r.to, NextFrom(r, T)})] : r \in T}

\* SCD2_REPAIR_CLAMP: an inverted interval becomes empty.
Inverted(T) == {r \in T : r.to < r.from}
Clamped(T) == {[r EXCEPT !.to = Max({r.to, r.from})] : r \in T}

\* SCD2_REPAIR_COLLAPSE: twins of one start and one payload lose to the last closed.
Twins(r, T) == {s \in T : s.from = r.from}
Losers(T) ==
  {r \in T : /\ \A s \in Twins(r, T) : s.pay = r.pay
             /\ \E s \in Twins(r, T) : s.to > r.to \/ (s.to = r.to /\ s.rid < r.rid)}

\* The checks of run_verification; valid_from_sanity holds of every table here.
Overlap(a, b) == a.from < a.to /\ b.from < b.to /\ a.from < b.to /\ b.from < a.to
MultiOpen(T) == \E a, b \in T : a # b /\ a.to = Open /\ b.to = Open
Overrun(T) == {r \in T : r.to > NextFrom(r, T)}
RangeOverlap(T) == \E a, b \in T : a # b /\ Overlap(a, b)

\* A mutation of Clean: only what the fallback index would notice.
Clean_OpenOnly(T) == Inverted(T) = {} /\ ~MultiOpen(T)

Clean(T) == Inverted(T) = {} /\ ~MultiOpen(T) /\ Overrun(T) = {} /\ ~RangeOverlap(T)
-----------------------------------------------------------------------------
(* The starts the repair moves.  min over no states is NULL, which least() ignores. *)

FirstState == Min(states \cup {Open})
DeviceFrom(D) == Min({d.from : d \in D} \cup {Open})

\* A mutation of AlignedFrom: the entity follows its device past recorded states.
AlignedFrom_PastStates(D) == DeviceFrom(D)

AlignedFrom(D) == Min({DeviceFrom(D), FirstState})

\* SCD2_ALIGN_START: a first version that starts before its device starts with it.
AlignPlan(E, D) ==
  {r \in E : /\ IsFirst(r, E) /\ ~Tied(r, E)
             /\ r.pay \in Linked /\ D # {} /\ DeviceFrom(D) > r.from
             /\ AlignedFrom(D) > r.from
             /\ AlignedFrom(D) < Min({r.to, NextFrom(r, E)})}

\* A mutation of ExtendPlan: the age of the registry entry is not asked for.
ExtendPlan_AnyAge(E) ==
  {r \in E : IsFirst(r, E) /\ ~Tied(r, E) /\ FirstState < r.from}

\* A mutation of ExtendPlan: an entity without states has its first one at infinity.
ExtendPlan_NoStates(E) ==
  {r \in E : IsFirst(r, E) /\ ~Tied(r, E) /\ created.entity <= FirstState}

\* SCD2_EXTEND_ENTITY: a first version starts with the first state its entry existed for.
ExtendPlan(E) ==
  {r \in E : /\ IsFirst(r, E) /\ ~Tied(r, E)
             /\ FirstState < r.from
             /\ created.entity <= FirstState}

\* SCD2_EXTEND_DEVICE: a device starts with its first entity, not before created_at.
EntityStarts(E) ==
  {IF r \in ExtendPlan(E) THEN FirstState ELSE r.from : r \in {x \in E : x.pay \in Linked}}
DeviceStart(E) == Max({Min(EntityStarts(E)), created.device})
DevicePlan(E, D) ==
  {d \in D : IsFirst(d, D) /\ ~Tied(d, D) /\ EntityStarts(E) # {} /\ DeviceStart(E) < d.from}

\* One UPDATE of valid_from over a plan.
Moved(T, plan, start) == {IF r \in plan THEN [r EXCEPT !.from = start] ELSE r : r \in T}

\* Rows entered in the quarantine under a reason.
Archive(reason, rows) == {<<reason, r>> : r \in rows}

\* SCD2_MERGE_PLAN: neighbours with one payload around a gap that a state contradicts;
\* of a chain only the first pair.
MergePairs(E) ==
  {p \in E \X E :
     /\ Before(p[1], p[2]) /\ ~\E x \in E : Before(p[1], x) /\ Before(x, p[2])
     /\ p[1].to < p[2].from /\ p[1].pay = p[2].pay
     /\ \E s \in states : p[1].to <= s /\ s < p[2].from}
MergePlan(E) == {p \in MergePairs(E) : ~\E q \in MergePairs(E) : q[2] = p[1]}

\* One pass: archive and delete the later row, then extend the earlier one.
MergePass(m) ==
  LET plan == MergePlan(m.rows) IN
  [rows |-> {IF \E p \in plan : p[1] = r
               THEN [r EXCEPT !.to = (CHOOSE p \in plan : p[1] = r)[2].to]
               ELSE r : r \in m.rows \ {p[2] : p \in plan}},
   gone |-> m.gone \cup {p[2] : p \in plan}]

Merged(E) ==
  LET after[n \in 0..MergePasses] ==
        IF n = 0 THEN [rows |-> E, gone |-> {}] ELSE MergePass(after[n - 1])
  IN after[MergePasses]

\* A mutation of NoCurrent: the newest version is looked up by valid_from alone.
NoCurrent_ByStart(T) == /\ \E r \in T : r.to = Open
                        /\ \E r \in T : (\A x \in T : x.from <= r.from) /\ r.to # Open

\* SCD2_NO_CURRENT_VERSION: the newest version is closed while an older one is open.
NoCurrent(T) == /\ \E r \in T : r.to = Open
                /\ \E r \in T : After(r, T) = {} /\ r.to # Open
-----------------------------------------------------------------------------
(* The runs of the script. *)

Init ==
  /\ entities = {} /\ devices = {}
  /\ states \in SUBSET Times
  /\ created \in Created
  /\ backup = [entities |-> {}, devices |-> {}]
  /\ quarantine = {} /\ enforced = {} /\ flags \in FlagSets
  /\ pc = "history" /\ runs = 0 /\ applied = 0

\* A new last row in the order of (valid_from, valid_to), so that a table is made once.
Extends(T, r) == \A x \in T : x.from < r.from \/ (x.from = r.from /\ x.to <= r.to)

\* What earlier releases left behind: any interval, also an inverted one.
LegacyVersion ==
  LET rid == Cardinality(entities) + Cardinality(devices) + 1 IN
  /\ pc = "history" /\ rid <= MaxRows
  /\ \E from \in Times, to \in Times \cup {Open}, pay \in Payloads :
       LET r == [rid |-> rid, from |-> from, to |-> to, pay |-> pay] IN
       \/ /\ devices = {} /\ Extends(entities, r)
          /\ entities' = entities \cup {r} /\ UNCHANGED devices
       \/ /\ pay \in Linked /\ Cardinality(devices) < MaxDevices /\ Extends(devices, r)
          /\ devices' = devices \cup {r} /\ UNCHANGED entities
  /\ UNCHANGED <<states, created, backup, quarantine, enforced, flags, pc, runs, applied>>

\* pending_alignments and pending_extensions of the tables as they are.
Pending == AlignPlan(entities, devices) \cup ExtendPlan(entities) \cup DevicePlan(entities, devices)

Mutating == ~Clean(entities) \/ ~Clean(devices) \/ flags # {} \/ Pending # {}

\* main --apply up to its first write: a run with nothing to change goes on to Enforce.
Start ==
  /\ pc \in {"history", "idle"} /\ runs < MaxRuns
  /\ runs' = runs + 1
  /\ backup' = [entities |-> entities, devices |-> devices]
  /\ pc' = IF Mutating THEN "entities" ELSE "enforce"
  /\ UNCHANGED <<entities, devices, states, created, quarantine, enforced, flags, applied>>

\* Collapse if asked to, and the quarantine of what is collapsed or will be clamped.
Kept(T) == IF "collapse" \in flags THEN T \ Losers(T) ELSE T
SetAside(T) ==
  Archive("duplicate", T \ Kept(T)) \cup Archive("clamped", Inverted(Kept(T)))

\* A mutation of Normalised: inverted intervals stay.
Normalised_NoClamp(T) == Rebuilt(Kept(T))

\* A mutation of Normalised: a table is either clamped or rebuilt.
Normalised_Either(T) == IF Inverted(Kept(T)) # {} THEN Clamped(Kept(T)) ELSE Rebuilt(Kept(T))

Normalised(T) == Clamped(Rebuilt(Kept(T)))

\* A mutation of StartArchive: the moved starts are not archived.
StartArchive_None(reason, rows) == {}

StartArchive(reason, rows) == Archive(reason, rows)

\* repair_table of the entities: one transaction, the device table read as committed.
RepairEntities ==
  LET repaired == Normalised(entities)
      align == AlignPlan(repaired, devices)
      aligned == Moved(repaired, align, AlignedFrom(devices))
      extend == ExtendPlan(aligned)
  IN /\ pc = "entities"
     /\ entities' = Moved(aligned, extend, FirstState)
     /\ quarantine' = quarantine \cup SetAside(entities)
          \cup StartArchive("aligned", align) \cup StartArchive("extended", extend)
     /\ pc' = "devices"
     /\ UNCHANGED <<devices, states, created, backup, enforced, flags, runs, applied>>

\* repair_table of the devices, a transaction of its own.
RepairDevices ==
  LET repaired == Normalised(devices)
      plan == DevicePlan(entities, repaired)
  IN /\ pc = "devices"
     /\ devices' = IF plan = {} THEN repaired ELSE Moved(repaired, plan, DeviceStart(entities))
     /\ quarantine' = quarantine \cup SetAside(devices) \cup StartArchive("extended", plan)
     /\ pc' = IF "merge" \in flags THEN "merge" ELSE "enforce"
     /\ UNCHANGED <<entities, states, created, backup, enforced, flags, runs, applied>>

\* merge_identical_gaps, refusing to continue if its passes do not suffice.
MergeGaps ==
  /\ pc = "merge" /\ MergePlan(Merged(entities).rows) = {}
  /\ entities' = Merged(entities).rows
  /\ quarantine' = quarantine \cup Archive("merged", Merged(entities).gone)
  /\ pc' = "enforce"
  /\ UNCHANGED <<devices, states, created, backup, enforced, flags, runs, applied>>

\* The tables that verify clean after the repair.
Verified == {t \in {"entities", "devices"} :
               Clean(IF t = "entities" THEN entities ELSE devices)}

\* add_constraints, and the end of main.
Enforce ==
  /\ pc = "enforce"
  /\ enforced' = enforced \cup Verified
  /\ pc' = "idle" /\ applied' = applied + 1
  /\ UNCHANGED <<entities, devices, states, created, backup, quarantine, flags, runs>>

\* A lock timeout or a lost connection after the first commit: the open transaction rolls
\* back and main ends.  At most one run ends so.
Abort ==
  /\ pc \in {"devices", "merge", "enforce"} /\ runs = applied + 1
  /\ pc' = "idle"
  /\ UNCHANGED <<entities, devices, states, created, backup, quarantine, enforced,
                 flags, runs, applied>>

Next == \/ LegacyVersion \/ Start \/ RepairEntities \/ RepairDevices
        \/ MergeGaps \/ Enforce \/ Abort

Spec == Init /\ [][Next]_vars
-----------------------------------------------------------------------------
(* What the repair promises. *)

TypeOK ==
  /\ entities \subseteq Row /\ devices \subseteq Row
  /\ backup.entities \subseteq Row /\ backup.devices \subseteq Row
  /\ states \subseteq Times
  /\ created \in Created
  /\ enforced \subseteq {"entities", "devices"} /\ flags \in FlagSets
  /\ pc \in {"history", "idle", "entities", "devices", "merge", "enforce"}
  /\ runs \in 0..MaxRuns /\ applied \in 0..runs

\* A transaction that committed leaves a table every check of run_verification accepts
\* (const.py:719-727): the window check and the range check agree, nothing is inverted,
\* at most one version is open - also after starts were moved and gaps merged.
RepairedIsClean ==
  /\ pc \in {"devices", "merge", "enforce"} => Clean(entities)
  /\ pc \in {"merge", "enforce"} => Clean(devices)

\* The exclusion constraint is only put where it holds, and no later run, merge or moved
\* start ever runs into it, whatever step an earlier run was aborted at.
ConstraintHolds ==
  /\ "entities" \in enforced => ~RangeOverlap(entities) /\ Inverted(entities) = {}
  /\ "devices" \in enforced => ~RangeOverlap(devices) /\ Inverted(devices) = {}

Covers(r, t) == r.from <= t /\ t < r.to
Covered(T, t) == \E r \in T : Covers(r, t)
Committed(t) == IF t = "entities" THEN pc \in {"devices", "merge", "enforce"}
                                 ELSE pc \in {"merge", "enforce"}

\* valid_from is trusted (const.py:706-717): a recorded state that lay in the version
\* started last before it keeps exactly the label of that version.  On a table without
\* damage no state changes its label at all.
AnchorLabelsKept ==
  Committed("entities") =>
    \A t \in states, r \in backup.entities :
      (Covers(r, t) /\ \A x \in After(r, backup.entities) : x.from > t)
        => {x.pay : x \in {y \in entities : Covers(y, t)}} = {r.pay}

\* The repair invents no history (const.py:716-717): an instant no version covered is
\* covered afterwards only from the first state of an entry that existed then, or inside
\* a gap between equal versions that was asked to be merged; a device only since its
\* creation and with an entity of its own.
NoInventedHistory ==
  /\ Committed("entities") =>
       \A t \in {x \in Times : Covered(entities, x) /\ ~Covered(backup.entities, x)} :
         \/ FirstState <= t /\ created.entity <= t /\ \A r \in backup.entities : t < r.from
         \/ /\ "merge" \in flags
            /\ \E a, b \in backup.entities :
                 a.pay = b.pay /\ a.from <= t /\ t < b.from /\ \E s \in states : s < b.from
  /\ Committed("devices") =>
       \A t \in {x \in Times : Covered(devices, x) /\ ~Covered(backup.devices, x)} :
         created.device <= t /\ \E r \in entities : r.pay \in Linked /\ r.from <= t

\* scd2_repair_quarantine holds every row that was deleted, clamped or had its start
\* moved (docstring, 74-76), over all the runs, aborted ones included.
LossesArchived ==
  \A t \in {"entities", "devices"} : Committed(t) =>
    LET now == IF t = "entities" THEN entities ELSE devices IN
    \A r \in backup[t] :
      \/ \E x \in now : x.rid = r.rid /\ x.from = r.from /\ (x.to <= r.to \/ "merge" \in flags)
      \/ \E q \in quarantine : q[2].rid = r.rid /\ q[2].from = r.from /\ q[2].pay = r.pay

\* An id loses its current version exactly when the Fidelity section of the same run
\* said so (const.py:1382-1390): nothing is reopened, and no open row is closed in silence.
CurrentLossReported ==
  \A t \in {"entities", "devices"} : Committed(t) =>
    LET now == IF t = "entities" THEN entities ELSE devices IN
    NoCurrent(backup[t]) <=> ((\E r \in backup[t] : r.to = Open) /\ ~\E r \in now : r.to = Open)

\* Re-running converges (repair_scd2.py:56): once a run has come to its end, a later one
\* changes no device and no end of an interval.  It moves the start of a first version at
\* most once more, to follow a device that the run before moved, and deletes at most the
\* duplicates that the merge of the run before laid bare; after two runs nothing changes.
\* The stronger claim of the documents is SecondRunChangesNothing.
Unanchored(T) == {[r EXCEPT !.from = 0] : r \in T}
LaterRunsSettle ==
  [][/\ applied >= 1 => /\ devices' = devices
                        /\ Unanchored(entities') \in {Unanchored(entities), Unanchored(Kept(entities))}
     /\ applied >= 2 => entities' = entities]_vars

\* "A second --apply changes nothing" (README.md:567; repair_scd2.py:79, "changes zero rows").
SecondRunChangesNothing ==
  [][applied >= 1 => UNCHANGED <<entities, devices>>]_vars
=============================================================================
