----------------------------- MODULE MCMetadata -----------------------------
(* Metadata for TLC, with the catalog the repository ships.                 *)
EXTENDS Metadata, TLC

Symmetry == Permutations(Requests) \cup Permutations(Earlier)

ShippedVersions ==
  << [id |-> "comfyui-0.27.0-verified", ref |-> "8b099de3", source_type |-> "snapshot",
      recommended |-> TRUE, advanced |-> FALSE],
     [id |-> "comfyui-master", ref |-> "master", source_type |-> "branch",
      recommended |-> FALSE, advanced |-> TRUE] >>

ShippedProfiles ==
  << [id |-> "nvidia-cu124-py312-torch260", torch_profile |-> "cu124", backend |-> "cu124",
      packages |-> {"torch", "torchvision", "torchaudio"}, recommended |-> TRUE, advanced |-> FALSE],
     [id |-> "upstream-requirements-py312", torch_profile |-> "requirements",
      backend |-> "requirements", packages |-> {}, recommended |-> FALSE, advanced |-> FALSE] >>

Rule(vendor, cuda, profile, gpu) ==
  [gpu_vendor |-> vendor, cuda_min |-> cuda, version_id |-> "comfyui-0.27.0-verified",
   runtime_profile_id |-> profile, gpu |-> gpu]

ShippedRules ==
  << Rule("nvidia", <<12, 4>>, "nvidia-cu124-py312-torch260", "first"),
     Rule("nvidia", <<>>, "upstream-requirements-py312", "first"),
     Rule("none", <<>>, "upstream-requirements-py312", "none") >>

SomeCudas == {<<>>, <<11, 8>>, <<12>>, <<12, 3, 9>>, <<12, 4>>, <<12, 10>>, <<13>>, <<13, 1>>}

SomeGpus == {<<>>, <<0>>, <<1, 0>>}

\* The shipped catalog meets the hypotheses under which the recommendation is
\* proved for every host (MetadataProofs, ProbesRecommendWhatFits).
ASSUME ShippedAssumption == RulesAreOrdered /\ ReportsAreSmall

=============================================================================
