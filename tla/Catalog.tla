------------------------------ MODULE Catalog -------------------------------
(***************************************************************************)
(* The catalog of ComfyUI versions and runtime profiles                    *)
(* (comfyctl/catalog.py over catalog/comfyui.json): what makes a catalog   *)
(* valid, what it resolves and what it recommends for a host.              *)
(***************************************************************************)
EXTENDS Naturals, Sequences

CONSTANTS
  Versions,    \* sequence of [id, ref, source_type, recommended, advanced]
  Profiles,    \* sequence of [id, torch_profile, backend, packages,
               \*              recommended, advanced]
  Rules,       \* sequence of [gpu_vendor, cuda_min, version_id,
               \*              runtime_profile_id, gpu]
  Nothing      \* a key that is not in the catalog, a field that is not given

Entries(list) == {list[k] : k \in DOMAIN list}

\* The first entry that satisfies the test a Boolean function makes of it.
FirstIndex(list, test) == CHOOSE k \in DOMAIN list : test[k] /\ \A j \in 1 .. k - 1 : ~test[j]

Distinct(list, key) == \A j, k \in DOMAIN list : j # k => key[j] # key[k]

-----------------------------------------------------------------------------
(* Version numbers: version_parts keeps the numbers of a text, so a version *)
(* is the sequence of its numbers; a text without any is <<>>, as is None.  *)

Part(v, k) == IF k <= Len(v) THEN v[k] ELSE 0

\* A mutant of version_at_least: the parts are not compared in their order.
version_at_least_each(value, minimum) ==
  /\ value # <<>> /\ minimum # <<>>
  /\ \A k \in 1 .. (Len(value) + Len(minimum)) : Part(value, k) >= Part(minimum, k)

\* Comparison of tuples padded with zeros: a part that is less is preceded by
\* one that is greater.
version_at_least(value, minimum) ==
  /\ value # <<>> /\ minimum # <<>>
  /\ \A k \in 1 .. (Len(value) + Len(minimum)) :
       Part(value, k) < Part(minimum, k) => \E j \in 1 .. k - 1 : Part(value, j) > Part(minimum, j)

-----------------------------------------------------------------------------
(* What load_catalog accepts                                                *)

ValidVersions ==
  /\ Versions # <<>>
  /\ \A v \in Entries(Versions) : v.source_type \in {"release", "snapshot", "branch"}
  /\ \E v \in Entries(Versions) : ~v.advanced
  /\ Distinct(Versions, [k \in DOMAIN Versions |-> Versions[k].id])

ValidProfiles ==
  /\ Profiles # <<>>
  /\ \E p \in Entries(Profiles) : ~p.advanced
  /\ \A p \in Entries(Profiles) :
       p.backend # "requirements" => {"torch", "torchvision", "torchaudio"} \subseteq p.packages
  /\ Distinct(Profiles, [k \in DOMAIN Profiles |-> Profiles[k].id])
  /\ Distinct(Profiles, [k \in DOMAIN Profiles |-> Profiles[k].torch_profile])

ValidRules ==
  /\ Rules # <<>>
  /\ \A r \in Entries(Rules) :
       /\ \E v \in Entries(Versions) : v.id = r.version_id
       /\ \E p \in Entries(Profiles) : p.id = r.runtime_profile_id

\* A process whose catalog is not valid does not come up: sections.py loads it
\* on import.
ASSUME CatalogAssumption == ValidVersions /\ ValidProfiles /\ ValidRules

-----------------------------------------------------------------------------
(* Lookups                                                                  *)

version_by_id(id) ==
  IF \E v \in Entries(Versions) : v.id = id
  THEN CHOOSE v \in Entries(Versions) : v.id = id
  ELSE Nothing

runtime_profile_by_id(id) ==
  IF \E p \in Entries(Profiles) : p.id = id
  THEN CHOOSE p \in Entries(Profiles) : p.id = id
  ELSE Nothing

Applies(rule, cuda, gpus) ==
  /\ rule.gpu_vendor = IF gpus = <<>> THEN "none" ELSE "nvidia"
  /\ rule.cuda_min # <<>> => version_at_least(cuda, rule.cuda_min)

\* The first rule that applies; the ValueError when there is none is the
\* recommendation Nothing.
recommendation(cuda, gpus) ==
  LET applies == [k \in DOMAIN Rules |-> Applies(Rules[k], cuda, gpus)]
      rule    == Rules[FirstIndex(Rules, applies)]
  IN IF \E k \in DOMAIN Rules : applies[k]
     THEN [version |-> version_by_id(rule.version_id).id,
           profile |-> runtime_profile_by_id(rule.runtime_profile_id).id,
           gpu_ids |-> IF rule.gpu = "first" /\ gpus # <<>> THEN {Head(gpus)} ELSE {}]
     ELSE Nothing

=============================================================================
