---------------------------- MODULE GridDiagnosis ----------------------------
(***************************************************************************)
(* The grid diagnostic of grid.py: the quality report, the columns it      *)
(* refuses, the chunks of active columns given to the kernel of the chosen *)
(* algorithm and scattered back into the grid.  The kernels and the scalar *)
(* references they are meant to match are in Firdewsa and IconDiagnosis.   *)
(*                                                                         *)
(* A column adds to those modules: amount (of precipitation, Missing when  *)
(* not finite), groundFinite, profileFinite, and for the ICON mode         *)
(* physical (positive temperature and pressure, descending interfaces) and *)
(* ratesFinite.                                                            *)
(***************************************************************************)
EXTENDS IconDiagnosis

CONSTANTS
  Grids,          \* the grids to diagnose: sequences of columns
  ChunkSize,      \* chunk_size
  Missing,        \* a precipitation amount that is not finite
  TraceAmount     \* the ICON mask; that of firdewsa is 0

\* What _prepare_grid accepts: the fields of a column have its levels, of which
\* there is at least one.
Prepared(c) ==
  LET n == Len(c.tw)
  IN  /\ c.tw \in Seq(Int) \ {<<>>} /\ c.t \in [1..n -> Int] /\ c.moist \in [1..n -> BOOLEAN]
      /\ c.h \in [1..n -> Int] /\ c.hh \in [1..(n + 1) -> Int]
      /\ c.amount \in Int \union {Missing}

ASSUME GridAssumption ==
  /\ ChunkSize \in Nat \ {0} /\ TraceAmount \in Nat /\ Missing \notin Int
  /\ \A g \in Grids : \A i \in DOMAIN g : Prepared(g[i])

VARIABLES
  algorithm,      \* "firdewsa" or "icon"
  grid,           \* the columns
  pc,             \* "check", "diagnose", "done" or "refused"
  quality,        \* the GridQualityReport
  pending,        \* indices of the active columns not yet diagnosed
  categorical,    \* the codes, per column
  probabilities   \* the probabilities, per column

vars == <<algorithm, grid, pc, quality, pending, categorical, probabilities>>

Threshold == IF algorithm = "icon" THEN TraceAmount ELSE 0
Columns == DOMAIN grid
Active == {i \in Columns : grid[i].amount # Missing /\ grid[i].amount > Threshold}

QualityReport ==
  LET badGround == {i \in Columns : ~grid[i].groundFinite}
      badProfile == {i \in Columns : ~grid[i].profileFinite}
  IN  [total |-> Len(grid), active |-> Cardinality(Active),
       invalidPrecip |-> Cardinality({i \in Columns : grid[i].amount = Missing}),
       invalidGround |-> Cardinality(badGround),
       invalidProfile |-> Cardinality(badProfile),
       invalidActiveGround |-> Cardinality(badGround \intersect Active),
       invalidActiveProfile |-> Cardinality(badProfile \intersect Active)]

BadActiveData(q) == q.invalidPrecip > 0 \/ q.invalidActiveGround > 0 \/ q.invalidActiveProfile > 0
BadIconActiveData == \E i \in Active : ~grid[i].physical \/ ~grid[i].ratesFinite

(* One kernel call for one column *)
Diagnosed(c) ==
  IF algorithm = "icon" THEN IconNumba(c)
  ELSE [code |-> CategoricalNumba(c), probabilities |-> ProbabilitiesNumba(c)]

Init ==
  /\ algorithm \in {"firdewsa", "icon"}
  /\ grid \in Grids
  /\ pc = "check"
  /\ quality = <<>>
  /\ pending = {}
  /\ categorical = [i \in Columns |-> NoPrecip]
  /\ probabilities = [i \in Columns |-> Nothing]

Refuse ==
  /\ pc = "check"
  /\ BadActiveData(QualityReport) \/ (algorithm = "icon" /\ BadIconActiveData)
  /\ pc' = "refused"
  /\ UNCHANGED <<algorithm, grid, quality, pending, categorical, probabilities>>

Accept ==
  /\ pc = "check"
  /\ ~BadActiveData(QualityReport)
  /\ algorithm = "icon" => ~BadIconActiveData
  /\ quality' = QualityReport
  /\ pending' = Active
  /\ pc' = IF Active = {} THEN "done" ELSE "diagnose"
  /\ UNCHANGED <<algorithm, grid, categorical, probabilities>>

(* The first ChunkSize of the pending columns *)
Chunk == {i \in pending : Cardinality({j \in pending : j < i}) < ChunkSize}

(* A chunk is gathered, diagnosed column by column and scattered back *)
DiagnoseChunk ==
  /\ pc = "diagnose"
  /\ LET chunk == Chunk
     IN  /\ \E result \in {[i \in chunk |-> Diagnosed(grid[i])]} :
              /\ categorical' = [i \in Columns |-> IF i \in chunk THEN result[i].code
                                                   ELSE categorical[i]]
              /\ probabilities' = [i \in Columns |-> IF i \in chunk THEN result[i].probabilities
                                                     ELSE probabilities[i]]
         /\ pending' = pending \ chunk
  /\ pc' = IF pending' = {} THEN "done" ELSE "diagnose"
  /\ UNCHANGED <<algorithm, grid, quality>>

Next == Refuse \/ Accept \/ DiagnoseChunk

Spec == Init /\ [][Next]_vars /\ WF_vars(Next)

-----------------------------------------------------------------------------
(* Properties *)

(* The scalar reference for one column *)
Reference(c) ==
  LET coded(p) == [code |-> CategoricalCode(p), probabilities |-> p]
  IN  IF algorithm = "icon" THEN DiagnoseIconColumn(c) ELSE coded(DiagnoseColumn(c))

(* The accelerated path, in chunks of active columns, publishes for every  *)
(* cell what the scalar reference of the algorithm says of that cell's     *)
(* column, and nothing for the cells without precipitation, whatever their *)
(* neighbours are (grid.py and both numba backends against profile.py and  *)
(* icon_profile.py).                                                       *)
ProductionMatchesReference ==
  LET published(i) == [code |-> categorical[i], probabilities |-> probabilities[i]]
  IN  pc = "done" =>
        \A i \in Columns :
          published(i) = IF i \in Active THEN Reference(grid[i])
                         ELSE [code |-> NoPrecip, probabilities |-> Nothing]

(* Freezing precipitation is never published over a surface whose wet bulb *)
(* is above zero, rain never below it, and freezing rain on the ground     *)
(* only over frozen ground: the physical rules of the acceptance scan, for *)
(* every way areas are dropped, merged and cut off.                        *)
TypeFitsSurface ==
  pc = "done" =>
    \A i \in Active :
      LET code == categorical[i]
      IN  /\ Surface(grid[i]) > 0 => code \notin {CodeOf.freezing_rain, CodeOf.freezing_drizzle}
          /\ Surface(grid[i]) < 0 => code \notin {CodeOf.rain, CodeOf.freezing_rain_on_ground}
          /\ code = CodeOf.freezing_rain_on_ground => grid[i].frozen

(* However small areas between them are dropped, the areas a diagnosis is  *)
(* made of alternate between melting and refreezing.                       *)
AreasAlternate ==
  LET alternate(e) == /\ \A k \in DOMAIN e : Magnitude(e[k]) >= SmallArea
                      /\ \A k \in 1..(Len(e) - 1) : Sign(e[k]) = -Sign(e[k + 1])
  IN  pc = "done" =>
        \A i \in Active :
          alternate(IF algorithm = "icon" THEN IconEnergiesNumba(grid[i]).surfaceUp
                    ELSE EnergiesNumba(grid[i]))

(* The interpolation of a zero crossing never divides by zero: where the   *)
(* sign changes from a level to the next, one of them is not zero.         *)
CrossingsAreDefined ==
  algorithm = "icon" =>
    \A i \in pending :
      LET c == grid[i]
          signs == IconSignsNumba(c)
      IN  \A k \in ProfileStart(c)..(Len(c.tw) - 1) :
            signs[k] # signs[k + 1] => CrossingSpan(c, k) > 0

(* A column with precipitation over the ICON mask always gets a type.      *)
IconClassifiesEveryActiveColumn ==
  pc = "done" /\ algorithm = "icon" => \A i \in Active : categorical[i] # NoPrecip

(* Both modes classify each active atmospheric column, the documentation   *)
(* says.  Firdewsa does not: see the README.                               *)
EveryActiveColumnIsClassified ==
  pc = "done" => \A i \in Active : categorical[i] # NoPrecip

-----------------------------------------------------------------------------
(* The strengthening for the proofs: of the active columns, those that are *)
(* no longer pending are diagnosed.                                        *)

Published(i) == [code |-> categorical[i], probabilities |-> probabilities[i]]

(* What the theorems assume of the tables: the polynomial and the          *)
(* exponential are clipped to percent, and 42 ln(x + 1) stays below        *)
(* 200 + x / 5.                                                            *)
TablesOver(energies) ==
  /\ \A t \in energies : ProbIceOf(t) \in 0..100
  /\ \A e \in energies : SnowIce(e) \in 0..100 /\ LayeredSnowIce(e) \in 0..100
  /\ \A e \in energies : e > -JoulePerKg => LogMelt(e) \in Int
  /\ \A e \in energies : e >= 0 => LogMelt(e) <= 200 + e \div (5 * JoulePerKg)

Tables == TablesOver(Int)

GridInv ==
  /\ algorithm \in {"firdewsa", "icon"} /\ grid \in Grids
  /\ pending \subseteq Active
  /\ pc \in {"check", "diagnose", "done", "refused"}
  /\ pc = "check" => \A i \in Columns : Published(i) = [code |-> NoPrecip, probabilities |-> Nothing]
  /\ pc \in {"diagnose", "done"} =>
       \A i \in Columns :
         i \notin pending =>
           Published(i) = IF i \in Active THEN Diagnosed(grid[i])
                          ELSE [code |-> NoPrecip, probabilities |-> Nothing]
  /\ pc = "done" => pending = {}
=============================================================================
