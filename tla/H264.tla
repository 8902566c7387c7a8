-------------------------------- MODULE H264 --------------------------------
(***************************************************************************)
(* Access units of an H.264 stream and the cache that keeps an IDR         *)
(* self-contained.  An access unit is the sequence of its NAL unit types:  *)
(* the start codes that separate them and their payloads are left out.     *)
(***************************************************************************)
EXTENDS Sequences, SequencesExt

NalTypes == {"sps", "pps", "idr", "slice"}

NoSets == <<>>
ParameterSets == <<"sps", "pps">>

contains_idr_slice(au) == "idr" \in Range(au)

contains_sps(au) == "sps" \in Range(au)

\* The bytes decide; the encoder's own flag can only add to them.
is_idr_access_unit(au, flag) == flag \/ contains_idr_slice(au)

\* The parameter sets of an access unit that carries both, or NoSets.  Their
\* contents are left out: one NAL unit of each type stands for them.
extract_parameter_sets(au) ==
    IF {"sps", "pps"} \subseteq Range(au) THEN ParameterSets ELSE NoSets

\* Both parameter sets come before the first IDR slice.
is_self_contained_idr(au) ==
    /\ contains_idr_slice(au)
    /\ \A set \in {"sps", "pps"} :
           \E i \in DOMAIN au : /\ au[i] = set
                                /\ \A j \in 1..i : au[j] # "idr"

(* Mutant: the last access unit decides what is cached.                    *)
observe_Overwrites(sets, au) == extract_parameter_sets(au)

\* ParameterSetCache::observe: the first sets seen stay.
observe(sets, au) == IF sets = NoSets THEN extract_parameter_sets(au) ELSE sets

\* ParameterSetCache::set_fallback: out-of-band sets fill an empty cache.
set_fallback(sets, header) == IF sets = NoSets THEN header ELSE sets

\* ParameterSetCache::complete_idr, called for access units taken for an IDR.
complete_idr(sets, au) == IF contains_sps(au) THEN au ELSE sets \o au
=============================================================================
