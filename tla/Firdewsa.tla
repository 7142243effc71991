------------------------------ MODULE Firdewsa ------------------------------
(***************************************************************************)
(* The Firdewsa column diagnostic, twice: the scalar reference of          *)
(* profile.py, written declaratively, and the single-pass kernel of        *)
(* numba_backend.py, written as the folds its loops are.  GridDiagnosis    *)
(* compares them.                                                          *)
(*                                                                         *)
(* A column is a record of sequences indexed from the top (level 1) to the *)
(* surface: t (temperature class), tw (wet-bulb temperature, integer       *)
(* degrees), moist (relative humidity over the 75 % threshold), h (height  *)
(* of full levels); and frozen (ground below -3 degrees).  Energies are    *)
(* integers: EnergyUnit times (tw[i] + tw[i+1]) * dz.  The exponential,    *)
(* the logarithm and the polynomial in temperature are tables.             *)
(***************************************************************************)
EXTENDS Integers, FiniteSets, SequencesExt, FiniteSetsExt

CONSTANTS
  EnergyUnit,     \* the energy of a mean of half a degree over one height unit
  JoulePerKg,     \* 1 J/kg in the unit of energies
  GenDepth,       \* PRECIP_GENERATION_MIN_DEPTH_M
  SubDepth,       \* SUBLIMATION_MIN_DEPTH_M
  ProbIceOf(_),   \* _prob_ice_from_temperature, percent
  SnowIce(_),     \* 1540 exp(-0.29 e), clipped to percent
  LayeredSnowIce(_),   \* the same with -0.28, when a refreezing area is below
  LogMelt(_)      \* 42 ln(e + 1) for e > -1 J/kg

ASSUME UnitsAssumption ==
  /\ EnergyUnit \in Nat \ {0} /\ JoulePerKg \in Nat \ {0}
  /\ GenDepth \in Nat /\ SubDepth \in Nat

SmallArea == 2 * JoulePerKg             \* SMALL_AREA_THRESHOLD_JKG
ShallowRefreezing == JoulePerKg         \* SHALLOW_SURFACE_REFREEZING_JKG

Types == <<"freezing_rain", "freezing_rain_on_ground", "ice_pellets",
           "freezing_drizzle", "snow", "rain">>        \* CATEGORICAL_PRIORITY
CodeOf == [freezing_rain |-> 3, freezing_rain_on_ground |-> 13,
           ice_pellets |-> 8, freezing_drizzle |-> 12, snow |-> 5, rain |-> 1]
NoPrecip == 0
Nothing == [type \in ToSet(Types) |-> 0]               \* TypeProbabilities()

-----------------------------------------------------------------------------
(* Arithmetic both implementations share *)

Clip(p) == Max({0, Min({100, p})})
Magnitude(e) == IF e < 0 THEN -e ELSE e
Sign(e) == IF e > 0 THEN 1 ELSE IF e < 0 THEN -1 ELSE 0
Share(prob, p) == Clip((prob * p) \div 100)
LevelsOf(c) == DOMAIN c.tw
Surface(c) == c.tw[Len(c.tw)]

(* -2.1 r + 0.2 m + 458, times 0.2 m when m is below 5 J/kg *)
FreezingIce(r, m) ==
  LET line == -21 * r + 2 * m + 4580 * JoulePerKg
  IN  IF m < 5 * JoulePerKg
        THEN (line * m) \div (50 * JoulePerKg * JoulePerKg)
        ELSE line \div (10 * JoulePerKg)

PelletIce(r, m) ==
  IF m <= -JoulePerKg THEN 0
  ELSE Clip((23 * r) \div (10 * JoulePerKg) - LogMelt(m) + 3)

Freezing(prob, r, m) == Clip((100 - prob) + Share(prob, Clip(FreezingIce(r, m))))

-----------------------------------------------------------------------------
(* profile.py *)

(* The maximal intervals from a level down on which a sequence is constant *)
Segments(v, top) ==
  {ab \in (top..Len(v)) \X (top..Len(v)) :
     /\ ab[1] <= ab[2]
     /\ \A i \in ab[1]..ab[2] : v[i] = v[ab[1]]
     /\ ab[1] = top \/ v[ab[1] - 1] # v[ab[1]]
     /\ ab[2] = Len(v) \/ v[ab[2] + 1] # v[ab[2]]}

Downwards(segments) == SetToSortSeq(segments, LAMBDA a, b : a[1] < b[1])

Layers(c) ==
  {LET inside(x) == {x[i] : i \in ab[1]..ab[2]}
   IN  [moist |-> c.moist[ab[1]], start |-> ab[1],
        depth |-> Max(inside(c.h)) - Min(inside(c.h)),
        coldest |-> Min(inside(c.t))] : ab \in Segments(c.moist, 1)}

ProbIce(layers, relaxed) ==
  LET dry == {l \in layers : ~l.moist /\ l.depth > SubDepth}
      generating == {l \in layers : l.moist /\ (relaxed \/ l.depth > GenDepth)}
      valid == {l \in generating : \A d \in dry : d.start <= l.start}
      top == CHOOSE l \in layers : \A k \in layers : l.start <= k.start
      lowest == CHOOSE l \in generating : \A k \in generating : k.start <= l.start
      from(temperature) == [found |-> TRUE, prob |-> ProbIceOf(temperature)]
  IN  CASE generating = {} /\ relaxed -> from(top.coldest)
        [] valid # {} -> from(Min({l.coldest : l \in valid}))
        [] generating # {} /\ valid = {} /\ relaxed -> from(lowest.coldest)
        [] OTHER -> [found |-> FALSE, prob |-> 0]

(* A level at zero takes the sign of the last level above it that is not,  *)
(* or else of the first below it, or is warm.                              *)
Signs(c) ==
  [i \in LevelsOf(c) |->
    LET other == {j \in LevelsOf(c) : c.tw[j] # 0}
        above == {j \in other : j <= i}
    IN  IF other = {} THEN 1
        ELSE IF above # {} THEN Sign(c.tw[Max(above)])
        ELSE Sign(c.tw[Min(other)])]

SegmentEnergy(c, first, last) ==
  SumFunction([i \in first..(last - 1) |->
                 EnergyUnit * (c.tw[i] + c.tw[i + 1]) * (c.h[i] - c.h[i + 1])])

MergeNever(areas, e) == Append(areas, e)        \* faulty: neighbours of one sign stay apart

Merge(areas, e) ==
  IF areas # <<>> /\ Sign(Last(areas)) = Sign(e)
    THEN [areas EXCEPT ![Len(areas)] = @ + e]
    ELSE Append(areas, e)

AreaLimit(c) == IF Surface(c) < 0 THEN 2 ELSE 3

(* Small areas are dropped, neighbours that are left with the same sign    *)
(* merged, and the lowest ones given from the surface up                   *)
LowestAreas(c, areas) ==
  LET large(e) == Magnitude(e) >= SmallArea
      lowest(up) == SubSeq(up, 1, Min({AreaLimit(c), Len(up)}))
  IN  lowest(Reverse(FoldLeft(Merge, <<>>, SelectSeq(areas, large))))

EnergiesSurfaceUp(c) ==
  LET area(ab) == SegmentEnergy(c, ab[1], ab[2])
      below(down) == [k \in DOMAIN Tail(down) |-> area(down[k + 1])]
  IN  LowestAreas(c, below(Downwards(Segments(Signs(c), 1))))

NoAreas(prob, c) ==
  [Nothing EXCEPT !.snow = prob,
                  ![IF Surface(c) > 0 THEN "rain" ELSE "freezing_drizzle"] = 100 - prob]

OneArea(melting, prob, c) ==
  LET snow == Share(prob, SnowIce(melting))
      rain == 100 - snow
  IN  IF Surface(c) < 0
      THEN [Nothing EXCEPT
              !.snow = snow,
              !.freezing_rain = Freezing(prob, ShallowRefreezing, melting),
              !.ice_pellets = Share(prob, PelletIce(ShallowRefreezing, melting))]
      ELSE [Nothing EXCEPT
              !.snow = snow, !.rain = rain,
              !.freezing_rain_on_ground = IF c.frozen THEN rain ELSE 0]

TwoAreasAlwaysFreezing(surfaceArea, melting, prob, c) ==   \* faulty: warm surface not excepted
  LET refreezing == Magnitude(surfaceArea)
  IN  [Nothing EXCEPT
         !.snow = Share(prob, LayeredSnowIce(melting)),
         !.ice_pellets = Share(prob, PelletIce(refreezing, melting)),
         !.freezing_rain = Freezing(prob, refreezing, melting)]

TwoAreas(surfaceArea, melting, prob, c) ==
  LET refreezing == Magnitude(surfaceArea)
  IN  [Nothing EXCEPT
         !.snow = Share(prob, LayeredSnowIce(melting)),
         !.ice_pellets = Share(prob, PelletIce(refreezing, melting)),
         !.freezing_rain = IF Surface(c) > 0 THEN 0
                           ELSE Freezing(prob, refreezing, melting)]

(* At most two energies are kept over a surface below zero, so the rain of *)
(* this branch is always over a surface that is not.                       *)
ThreeAreas(surfaceArea, middle, upper, prob, c) ==
  LET rain == Freezing(prob, Magnitude(middle), upper)
  IN  [Nothing EXCEPT
         !.ice_pellets = Share(prob, PelletIce(Magnitude(middle), upper)),
         !.snow = Share(prob, LayeredSnowIce(upper + surfaceArea)),
         !.rain = rain,
         !.freezing_rain_on_ground = IF c.frozen THEN rain ELSE 0]

AreasToProbabilities(e, prob, c) ==
  CASE Len(e) = 0 -> NoAreas(prob, c)
    [] Len(e) = 1 -> OneArea(e[1], prob, c)
    [] Len(e) = 2 -> TwoAreas(e[1], e[2], prob, c)
    [] Len(e) = 3 -> ThreeAreas(e[1], e[2], e[3], prob, c)

Total(p) == SumFunction(p)

CategoricalCode(p) ==
  LET highest == Max(Range(p))
      first == SelectInSeq(Types, LAMBDA type : p[type] = highest)
  IN  IF highest <= 0 THEN NoPrecip ELSE CodeOf[Types[first]]

(* The microphysics-consistent result of a column with precipitation: the  *)
(* strict one, or the relaxed one when the strict one is nothing at all    *)
DiagnoseColumn(c) ==
  LET layers == Layers(c)
      energies == EnergiesSurfaceUp(c)
      with(ice) == IF ice.found THEN AreasToProbabilities(energies, ice.prob, c)
                   ELSE Nothing
      pure == with(ProbIce(layers, FALSE))
  IN  IF Total(pure) = 0 THEN with(ProbIce(layers, TRUE)) ELSE pure

-----------------------------------------------------------------------------
(* numba_backend.py: one pass over the levels, arrays and counters instead *)
(* of lists                                                                *)

NewLayer(c, i) == [moist |-> c.moist[i], start |-> i, low |-> c.h[i],
                   high |-> c.h[i], coldest |-> c.t[i]]

LayersNumba(c) ==
  LET extend(l, i) == [l EXCEPT !.low = Min({@, c.h[i]}), !.high = Max({@, c.h[i]}),
                                !.coldest = Min({@, c.t[i]})]
      level(acc, i) == IF c.moist[i] = Last(acc).moist
                         THEN Append(Front(acc), extend(Last(acc), i))
                         ELSE Append(acc, NewLayer(c, i))
      all == FoldLeft(level, <<NewLayer(c, 1)>>, Tail([i \in LevelsOf(c) |-> i]))
  IN  [k \in DOMAIN all |->
         [moist |-> all[k].moist, start |-> all[k].start,
          depth |-> all[k].high - all[k].low, coldest |-> all[k].coldest]]

(* The two passes over the layers: the lowest deep dry layer, then the     *)
(* lowest generating layer and the coldest of those not above the dry one  *)
LayerScan(layers, relaxed) ==
  LET sublimation == FoldLeft(LAMBDA top, l :
                       IF ~l.moist /\ l.depth > SubDepth THEN Max({top, l.start}) ELSE top,
                       -1, layers)
      scan(acc, l) ==
        IF ~l.moist \/ (~relaxed /\ l.depth <= GenDepth) THEN acc
        ELSE [lowest |-> l.coldest,
              valid |-> acc.valid \/ l.start >= sublimation,
              best |-> IF l.start >= sublimation /\ (~acc.valid \/ l.coldest < acc.best)
                         THEN l.coldest ELSE acc.best,
              any |-> TRUE]
  IN  FoldLeft(scan, [lowest |-> 0, valid |-> FALSE, best |-> 0, any |-> FALSE], layers)

IceFrom(found, fallback, relaxed) ==
  LET from(temperature) == [found |-> TRUE, prob |-> ProbIceOf(temperature)]
  IN  CASE found.valid -> from(found.best)
        [] found.any /\ ~found.valid /\ relaxed -> from(found.lowest)
        [] ~found.any /\ relaxed -> from(fallback)
        [] OTHER -> [found |-> FALSE, prob |-> 0]

ProbIceNumba(layers, relaxed) ==
  IceFrom(LayerScan(layers, relaxed), layers[1].coldest, relaxed)

SignsNumba(c) ==
  LET warm == \A i \in LevelsOf(c) : c.tw[i] = 0
      fill(s, i) == IF s[i] # 0 THEN s
                    ELSE [s EXCEPT ![i] =
                      IF warm THEN 1
                      ELSE IF i > 1 THEN s[i - 1]
                      ELSE s[Min({j \in LevelsOf(c) : s[j] # 0})]]
  IN  FoldLeft(fill, [i \in LevelsOf(c) |-> Sign(c.tw[i])], [i \in LevelsOf(c) |-> i])

(* The pass over the levels: the sign, the start and the number of the     *)
(* current segment, and the areas merged so far; a segment ends before     *)
(* level i, or at the surface when i is one past it                        *)
EndSegmentTopKept(c, acc, i) ==                 \* faulty: keeps the topmost area
  LET energy == SegmentEnergy(c, acc.start, i - 1)
  IN  IF Magnitude(energy) >= SmallArea THEN Merge(acc.areas, energy) ELSE acc.areas

EndSegment(c, acc, i) ==
  LET energy == SegmentEnergy(c, acc.start, i - 1)
  IN  IF acc.count > 0 /\ Magnitude(energy) >= SmallArea
        THEN Merge(acc.areas, energy) ELSE acc.areas

LowestNumba(c, areas) ==
  [k \in 1..Min({AreaLimit(c), Len(areas)}) |-> areas[Len(areas) + 1 - k]]

EnergiesNumba(c) ==
  LET n == Len(c.tw)
      signs == SignsNumba(c)
      level(acc, i) ==
        IF i <= n /\ signs[i] = signs[acc.start] THEN acc
        ELSE [start |-> Min({i, n}), count |-> acc.count + 1,
              areas |-> EndSegment(c, acc, i)]
      pass == FoldLeft(level, [start |-> 1, count |-> 0, areas |-> <<>>],
                       [k \in 1..n |-> k + 1])
  IN  LowestNumba(c, pass.areas)

(* The last of the types in the order of the scan that is strictly more    *)
(* probable than all before it                                             *)
CodeNumba(p) ==
  LET scan(acc, type) == IF p[type] > acc.highest
                           THEN [highest |-> p[type], code |-> CodeOf[type]] ELSE acc
      last == FoldLeft(scan, [highest |-> p.freezing_rain, code |-> 3], Tail(Types))
  IN  IF last.highest <= 0 THEN NoPrecip ELSE last.code

(* The formulas of the areas are repeated word for word in this backend,   *)
(* as probabilities and as a code; one operator stands for all copies      *)
AreasNumba(c, relaxed) ==
  LET ice == ProbIceNumba(LayersNumba(c), relaxed)
  IN  IF ice.found THEN AreasToProbabilities(EnergiesNumba(c), ice.prob, c) ELSE Nothing

(* The categorical kernel falls back when the code is 0, the probability   *)
(* kernel when the total is                                                *)
CategoricalNumba(c) ==
  LET pure == CodeNumba(AreasNumba(c, FALSE))
  IN  IF pure # NoPrecip THEN pure ELSE CodeNumba(AreasNumba(c, TRUE))

ProbabilitiesNumba(c) ==
  LET pure == AreasNumba(c, FALSE)
  IN  IF Total(pure) <= 0 /\ ProbIceNumba(LayersNumba(c), TRUE).found
        THEN AreasNumba(c, TRUE) ELSE pure
=============================================================================
