------------------------------- MODULE FreezeRecord -------------------------------
(***************************************************************************)
(* The freeze of an experiment: benchmarks/freeze.py with the manifests of *)
(* datasets/manifest.py, the profiles of benchmarks/config.py and the      *)
(* baseline inventory of benchmarks/inventory.py, which was taken earlier. *)
(*                                                                         *)
(* A freeze reads the same files several times: `git status' first, then a *)
(* digest of each input, then its contents; the release binary is asked    *)
(* for its profiles before its digest is taken.  Files may be edited,      *)
(* tools upgraded and the binary rebuilt at any moment.  A digest is what  *)
(* it digests.                                                             *)
(***************************************************************************)
EXTENDS Integers, FiniteSets

CONSTANTS Splits,      \* development, validation, holdout: one manifest each
          Profiles,    \* built-in profiles, one TOML each
          Baselines,   \* ids a baseline catalogue may have
          Manifests,   \* split -> contents its manifest may have
          Tomls,       \* profile -> contents its TOML may have
          Catalogues,  \* contents of the baseline catalogue
          Binaries,    \* release binaries a build may leave
          MaxChanges   \* bound: edits, upgrades and rebuilds

ASSUME FreezeAssumption ==
  MaxChanges \in Nat /\ DOMAIN Manifests = Splits /\ DOMAIN Tomls = Profiles

VARIABLES now,        \* what is on disk
          committed,  \* what the commit has
          inventory,  \* the baseline inventory file
          edits,      \* files changed so far
          run         \* the freeze

freezeVars == <<now, committed, inventory, edits, run>>

NoInventory == [state |-> "absent"]

Contents(options) ==
  {c \in [DOMAIN options -> UNION {options[k] : k \in DOMAIN options}] :
     \A k \in DOMAIN options : c[k] \in options[k]}

\* The files that git tracks, of all that is on disk.
Tracked(disk) == <<disk.manifest, disk.profile, disk.catalogue>>

FreezeInit ==
  /\ now \in [manifest : Contents(Manifests), profile : Contents(Tomls),
             catalogue : Catalogues, tool : [Baselines -> {0}],
             binary : Binaries]
  /\ committed = Tracked(now)
  /\ inventory = NoInventory /\ edits = 0
  /\ run \in [pc : {"start"}, state : {"development", "publishable"},
              branch : {"mathsvg-absolute", "other"}]

-----------------------------------------------------------------------------
(* The world around a freeze.                                              *)

Change(disk) ==
  /\ edits < MaxChanges /\ edits' = edits + 1
  /\ now' = disk /\ disk # now
  /\ UNCHANGED <<committed, inventory, run>>

EditManifest ==
  \E s \in Splits : \E c \in Manifests[s] :
    Change([now EXCEPT !.manifest[s] = c])
EditProfile ==
  \E p \in Profiles : \E c \in Tomls[p] : Change([now EXCEPT !.profile[p] = c])
EditCatalogue == \E c \in Catalogues : Change([now EXCEPT !.catalogue = c])
UpgradeTool ==
  \E b \in Baselines : Change([now EXCEPT !.tool[b] = @ + 1])
Rebuild == \E c \in Binaries : Change([now EXCEPT !.binary = c])

\* inventory(): a version is probed and a digest taken of each executable the
\* catalogue asks for; the rest is unavailable.
TakeInventory ==
  /\ run.pc = "start"
  /\ \E present \in SUBSET Baselines, m \in {"here", "elsewhere"} :
       inventory' = [state |-> "written", machine |-> m,
                     catalogue |-> now.catalogue,
                     row |-> [b \in DOMAIN now.catalogue.row |->
                       IF now.catalogue.row[b] = "auto" /\ b \in present
                       THEN [status |-> "available", tool |-> now.tool[b]]
                       ELSE [status |-> "unavailable"]]]
  /\ inventory.state = "absent"
  /\ UNCHANGED <<now, committed, edits, run>>

-----------------------------------------------------------------------------
(* The checks of a publishable freeze.                                     *)

\* A row that DatasetEntry.validate takes.
RowValid(r) == /\ (r.split = "holdout") = r.sealed
               /\ r.legacy => r.split = "development"
               /\ r.primary => r.origin = "real"

\* validate_collection, of one manifest: ids once, groups in one split.
Loads(m) == /\ m # {} /\ \A r \in m : RowValid(r)
            /\ \A r, q \in m : r.id = q.id => r = q
            /\ \A r, q \in m : r.group = q.group => r.split = q.split

\* Mutant: only the ids are compared across the manifests.
IdsIsolated(ms) ==
  \A s, t \in Splits : \A r \in ms[s], q \in ms[t] :
    /\ r.split = s
    /\ r.id = q.id => s = t
\* _validate_publishable_manifests
Isolated(ms) ==
  \A s, t \in Splits : \A r \in ms[s], q \in ms[t] :
    /\ r.split = s
    /\ r.id = q.id \/ r.group = q.group => s = t

\* load_profile, of the blocks.
ProfileLoads(c) == /\ c.micro > 0 /\ c.micro <= c.block
                   /\ c.block <= c.super /\ c.block % c.micro = 0

ConfigsValid(tomls, cat) ==
  /\ \A p \in Profiles : /\ tomls[p].frozen /\ tomls[p].profile = p
                         /\ ProfileLoads(tomls[p])
  /\ cat.frozen /\ cat.row # <<>>

\* validate_runtime_profiles: every contract mirrors its TOML and all of them
\* have one catalogue.
RuntimeMirrors(documents, tomls) ==
  /\ \A p \in Profiles : /\ documents[p].block = tomls[p].block
                         /\ documents[p].micro = tomls[p].micro
  /\ \A p, q \in Profiles : documents[p].catalogue = documents[q].catalogue

\* Mutant: the digests of the executables are believed.
InventoryBelieved(inv, cat, disk) ==
  /\ inv.state = "written" /\ inv.catalogue = disk.catalogue
  /\ inv.machine = "here" /\ DOMAIN inv.row = DOMAIN cat.row
\* _validate_baseline_inventory
InventoryValid(inv, cat, disk) ==
  /\ inv.state = "written" /\ inv.catalogue = disk.catalogue
  /\ inv.machine = "here" /\ DOMAIN inv.row = DOMAIN cat.row
  /\ \A b \in DOMAIN inv.row : inv.row[b].status = "available"
       => inv.row[b].tool = disk.tool[b]

-----------------------------------------------------------------------------
(* The freeze, in the order main and build_record work.                    *)

To(pc, fields) ==
  run' = [k \in (DOMAIN run) \cup (DOMAIN fields) |->
            IF k = "pc" THEN pc
            ELSE IF k \in DOMAIN fields THEN fields[k] ELSE run[k]]
Reject == run' = [pc |-> "refused"]
Step(from) == run.pc = from /\ UNCHANGED <<now, committed, inventory, edits>>
Publishing == run.state = "publishable"

\* query_version and query_runtime_profiles: a binary is its contracts.
Query == Step("start") /\ To("queried", [runtime |-> now.binary])

Dirty == Tracked(now) # committed

\* Mutant: a dirty tree is only recorded.
IdentifyDirty ==
  /\ Step("queried")
  /\ IF Publishing /\ run.branch # "mathsvg-absolute" THEN Reject
     ELSE To("identified", [dirty |-> Dirty, since |-> edits])
\* git_identity and _validate_source_identity
Identify ==
  /\ Step("queried")
  /\ IF Publishing /\ (Dirty \/ run.branch # "mathsvg-absolute") THEN Reject
     ELSE To("identified", [dirty |-> Dirty, since |-> edits])

HashInputs ==
  Step("identified") /\ To("hashed", [digest |-> Tracked(now)])

\* Mutant: a publishable freeze stops at the manifests.
LoadOnly ==
  /\ Step("hashed")
  /\ IF \A s \in Splits : Loads(now.manifest[s])
     THEN To("built", [manifests |-> now.manifest]) ELSE Reject
LoadManifests ==
  /\ Step("hashed")
  /\ LET ms == now.manifest
     IN  IF \A s \in Splits : Loads(ms[s])
         THEN To(IF Publishing THEN "manifests" ELSE "built", [manifests |-> ms])
         ELSE Reject

ValidateManifests ==
  /\ Step("manifests")
  /\ IF /\ Isolated(run.manifests)
        /\ \E s \in Splits : \E r \in run.manifests[s] : r.split = "holdout"
     THEN To("isolated", <<>>) ELSE Reject

LoadConfigs ==
  /\ Step("isolated")
  /\ LET tomls == now.profile
     IN  IF ConfigsValid(tomls, now.catalogue)
         THEN To("configs", [tomls |-> tomls, catalogue |-> now.catalogue])
         ELSE Reject

PinBinary ==
  /\ Step("configs")
  /\ IF RuntimeMirrors(run.runtime, run.tomls)
     THEN To("pinned", [binary |-> now.binary]) ELSE Reject

CheckInventory ==
  /\ Step("pinned")
  /\ IF InventoryValid(inventory, run.catalogue, now)
     THEN To("built", [inventory |-> inventory]) ELSE Reject

Write == Step("built") /\ To("published", [whole |-> TRUE])

FreezeNext == \/ EditManifest \/ EditProfile \/ EditCatalogue
        \/ UpgradeTool \/ Rebuild \/ TakeInventory
        \/ Query \/ Identify \/ HashInputs \/ LoadManifests
        \/ ValidateManifests \/ LoadConfigs \/ PinBinary \/ CheckInventory
        \/ Write

FreezeSpec == FreezeInit /\ [][FreezeNext]_freezeVars

-----------------------------------------------------------------------------
(* Properties.                                                             *)

Published == run.pc = "published" /\ Publishing

\* Where a freeze can be, and what a written record has.
FreezeTypeOK ==
  /\ run.pc \in {"start", "queried", "identified", "hashed", "manifests",
                 "isolated", "configs", "pinned", "built", "published", "refused"}
  /\ edits \in 0..MaxChanges
  /\ now.tool \in [Baselines -> 0..MaxChanges]
  /\ \A s \in Splits : now.manifest[s] \in Manifests[s]
  /\ run.pc = "published" =>
       DOMAIN run = {"pc", "state", "branch", "runtime", "dirty", "since",
                     "digest", "manifests", "whole"} \cup
         (IF Publishing THEN {"tomls", "catalogue", "binary", "inventory"} ELSE {})

\* freeze.py:953, docs/benchmark-methodology.md:44: no data set and no split
\* group of a published record is in two splits, and what it seals is its
\* holdout, whichever rows the three manifests had.
NoSplitLeaks ==
  Published =>
    LET rows == UNION {run.manifests[s] : s \in Splits}
    IN  /\ \A r, q \in rows :
             r.id = q.id \/ r.group = q.group => r.split = q.split
        /\ {r \in rows : r.sealed} = {r \in rows : r.split = "holdout"}
        /\ \E r \in rows : r.sealed

\* freeze.py:268: a published record whose digests are not those of the
\* commit it names has files that were edited while the freeze ran.
EarlierEditsAreSeen ==
  Published /\ run.digest # committed => edits > run.since

\* freeze.py:796: the tools of a published record are the ones on disk or
\* were upgraded after it was begun, and no baseline of the catalogue the
\* record pins disappears.
InventoryIsCurrent ==
  Published =>
    /\ DOMAIN run.inventory.row = DOMAIN run.catalogue.row
    /\ edits = run.since =>
         \A b \in DOMAIN run.inventory.row :
           run.inventory.row[b].status = "available"
             => run.inventory.row[b].tool = now.tool[b]

\* A published record is of one state of the checkout: its splits are apart,
\* its digests are those of the commit, its inventory is of the tools.
RecordIsOneState ==
  /\ FreezeTypeOK
  /\ NoSplitLeaks /\ EarlierEditsAreSeen /\ InventoryIsCurrent
=============================================================================
