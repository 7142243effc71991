--------------------------- MODULE MCMemberPipeline ---------------------------
(***************************************************************************)
(* Instances of MemberPipeline for TLC.                                    *)
(***************************************************************************)
EXTENDS MemberPipeline

CONSTANTS rain, Temperature

MCMicrophysics == {rain}
MCParams == {Temperature}

\* Accumulations of four hours that rise, stand still and decrease.
Rising(missing) == [s \in 0..3 |-> IF s \in missing THEN Lost ELSE s + 1]
Sinking == <<3, 2, 4>>
Packed == [s \in 0..3 |-> IF s = 0 THEN 1 ELSE Sinking[s]]

Archive(total, rainfall, hole, start) ==
  [acc |-> [k \in {TotalPrecip} \union Microphysics |-> IF k = TotalPrecip THEN total ELSE rainfall],
   levels |-> [p \in Params |-> [s \in 0..3 |-> IF s = hole THEN {2} ELSE {1, 2}]],
   ground |-> 0..3, heights |-> TRUE, start |-> start]

\* All fields; a missing accumulation; a level missing at one hour, below and
\* above the cutoff; no ground temperature; no heights.
MCArchives ==
  {Archive(Packed, Rising({}), 9, 1), Archive(Rising({}), Packed, 9, 2),
   Archive(Packed, Rising({1}), 9, 1),
   Archive(Rising({}), Packed, 2, 1), Archive(Rising({}), Packed, 2, 2),
   [Archive(Rising({}), Packed, 9, 1) EXCEPT !.ground = {0, 1, 3}],
   [Archive(Rising({}), Packed, 9, 1) EXCEPT !.heights = FALSE]}

Call(first, last, size, prefetch, resume, check) ==
  [first |-> first, last |-> last, size |-> size, prefetch |-> prefetch,
   resume |-> resume, check |-> check]

MCCalls ==
  {Call(0, 3, 2, TRUE, TRUE, FALSE), Call(1, 3, 2, TRUE, TRUE, TRUE),
   Call(1, 3, 1, TRUE, FALSE, FALSE), Call(2, 3, 2, FALSE, TRUE, FALSE),
   Call(1, 2, 1, FALSE, TRUE, TRUE)}
=============================================================================
