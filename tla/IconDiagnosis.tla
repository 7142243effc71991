---------------------------- MODULE IconDiagnosis ----------------------------
(***************************************************************************)
(* The ICON-like column diagnostic: the scalar reference of                *)
(* icon_profile.py, written by what its loops compute, and the kernel of   *)
(* icon_numba_backend.py, written as the folds its loops are.  Columns,    *)
(* units, tables and the arithmetic are those of Firdewsa; in addition a   *)
(* column has hh (heights of the half levels, one more than levels) and    *)
(* rates (the archived surface rates of the hydrometeors).                 *)
(***************************************************************************)
EXTENDS Firdewsa

CONSTANTS
  Cutoff,           \* vertical_cutoff_m
  RateMin           \* PTYPE_RATE_MIN_KG_M2_S

ASSUME IconAssumption == Cutoff \in Int /\ RateMin \in Nat \ {0}

LargeRefreezing == 600 * JoulePerKg              \* LARGE_REFREEZING_SNOW_THRESHOLD_JKG
PelletKeepMax == (56 * JoulePerKg) \div 10       \* ICE_PELLET_SURFACE_MELT_KEEP_MAX_JKG
PelletRainMin == (132 * JoulePerKg) \div 10      \* ICE_PELLET_SURFACE_MELT_RAIN_MIN_JKG

IconCodeOf == [rain_snow_mixed |-> 7, wet_snow |-> 6, graupel |-> 9, hail |-> 10]

(* The first level at or below the cutoff, or the top *)
ProfileStart(c) ==
  LET below == {i \in LevelsOf(c) : c.h[i] <= Cutoff}
  IN  IF below = {} THEN 1 ELSE Min(below)

-----------------------------------------------------------------------------
(* Energy between two neighbouring levels.  Where the wet bulb crosses     *)
(* zero, the crossing is interpolated and each side gets its triangle.     *)

Thickness(c, i) == c.h[i] - c.h[i + 1]
CrossingSpan(c, i) == Magnitude(c.tw[i]) + Magnitude(c.tw[i + 1])
LayerEnergy(c, i) == EnergyUnit * CrossingSpan(c, i) * Thickness(c, i)
UpperEnergy(c, i) ==
  (EnergyUnit * c.tw[i] * c.tw[i] * Thickness(c, i)) \div CrossingSpan(c, i)
LowerEnergy(c, i) ==
  (EnergyUnit * c.tw[i + 1] * c.tw[i + 1] * Thickness(c, i)) \div CrossingSpan(c, i)

-----------------------------------------------------------------------------
(* icon_profile.py *)

(* Depths are those between the interfaces around the layer *)
IconLayers(c) ==
  {[moist |-> c.moist[ab[1]], start |-> ab[1], depth |-> c.hh[ab[1]] - c.hh[ab[2] + 1],
    coldest |-> Min({c.t[i] : i \in ab[1]..ab[2]})] : ab \in Segments(c.moist, ProfileStart(c))}

IconProbIce(layers, relaxed) ==
  LET sublimation == Max({-1} \union {l.start : l \in {k \in layers :
                                        ~k.moist /\ k.depth > SubDepth}})
      generating == {l \in layers : l.moist /\ (relaxed \/ l.depth > GenDepth)}
      valid == {l \in generating : l.start >= sublimation}
      lowest == CHOOSE l \in generating : \A k \in generating : k.start <= l.start
      from(temperature) == [found |-> TRUE, prob |-> ProbIceOf(temperature)]
  IN  CASE generating = {} /\ relaxed -> from(Min({l.coldest : l \in layers}))
        [] valid # {} -> from(Min({l.coldest : l \in valid}))
        [] generating # {} /\ valid = {} /\ relaxed -> from(lowest.coldest)
        [] OTHER -> [found |-> FALSE, prob |-> 0]

(* Levels above the start have sign 0; a level at zero takes the sign of   *)
(* the level above it, and the first one that of the first that has one    *)
IconSigns(c) ==
  LET start == ProfileStart(c)
      other(lo, hi) == {j \in lo..hi : c.tw[j] # 0}
  IN  [i \in LevelsOf(c) |->
         IF i < start THEN 0
         ELSE IF other(start, i) # {} THEN Sign(c.tw[Max(other(start, i))])
         ELSE IF other(i, Len(c.tw)) # {} THEN Sign(c.tw[Min(other(i, Len(c.tw)))])
         ELSE 1]

(* The area of a segment, and the sum of all warm ones *)
IconArea(c, signs, ab) ==
  LET layers == SumFunction([i \in ab[1]..(ab[2] - 1) |-> LayerEnergy(c, i)])
      above == IF ab[1] = ProfileStart(c) THEN 0 ELSE LowerEnergy(c, ab[1] - 1)
      below == IF ab[2] = Len(c.tw) THEN 0 ELSE UpperEnergy(c, ab[2])
  IN  signs[ab[1]] * (layers + above + below)

IconEnergies(c) ==
  LET areas(signs) ==
        LET area(ab) == IconArea(c, signs, ab)
            of(down) == [k \in DOMAIN down |-> area(down[k])]
        IN  of(Downwards(Segments(signs, ProfileStart(c))))
      energies(a) == [surfaceUp |-> LowestAreas(c, Tail(a)),
                      melting |-> SumFunction([k \in DOMAIN a |-> Max({0, a[k]})])]
  IN  energies(areas(IconSigns(c)))

IconNoAreas(prob, c) ==
  LET rain == 100 - prob
  IN  IF Surface(c) > 0
        THEN [Nothing EXCEPT !.snow = prob, !.rain = rain,
                !.freezing_rain_on_ground = IF c.frozen THEN rain ELSE 0]
        ELSE [Nothing EXCEPT !.snow = prob, !.freezing_drizzle = rain]

IconSnow(prob, e) == Share(prob, SnowIce(e.melting))

(* The ice probability is clipped before the factor for little melting *)
IconFreezing(prob, r, m) ==
  LET line == Clip((-21 * r + 2 * m + 4580 * JoulePerKg) \div (10 * JoulePerKg))
      ice == IF m < 5 * JoulePerKg THEN (line * m) \div (5 * JoulePerKg) ELSE line
  IN  Clip((100 - prob) + (prob * ice) \div 100)

ColdSurface(e, prob, c) ==
  LET lowest == e.surfaceUp[1]
      second == IF Len(e.surfaceUp) >= 2 THEN e.surfaceUp[2] ELSE 0
      melting == IF lowest > 0 THEN lowest ELSE Max({0, second})
      refreezing == IF lowest > 0 THEN ShallowRefreezing ELSE Magnitude(lowest)
      pellets == Share(prob, PelletIce(refreezing, melting))
      large == refreezing > LargeRefreezing
  IN  IF melting <= 0 THEN IconNoAreas(prob, c)
      ELSE [Nothing EXCEPT
              !.snow = IF large THEN Max({IconSnow(prob, e), pellets}) ELSE IconSnow(prob, e),
              !.ice_pellets = IF large THEN 0 ELSE pellets,
              !.freezing_rain = IconFreezing(prob, refreezing, melting)]

(* What is left of ice pellets after a warm layer at the surface *)
PelletsKept(pellets, surfaceMelting) ==
  CASE surfaceMelting >= PelletRainMin -> 0
    [] surfaceMelting <= PelletKeepMax -> pellets
    [] OTHER -> (pellets * (PelletRainMin - surfaceMelting))
                  \div (PelletRainMin - PelletKeepMax)

WarmSurfacePelletsLost(e, prob, c) ==           \* faulty: melted pellets are not rain
  LET area(k) == IF Len(e.surfaceUp) >= k THEN e.surfaceUp[k] ELSE 0
      pellets == Share(prob, PelletIce(Max({0, -area(2)}), area(3)))
      refrozen == area(2) < 0 /\ area(3) > 0
      snow == IconSnow(prob, e)
  IN  IF area(1) <= 0 THEN IconNoAreas(prob, c)
      ELSE [Nothing EXCEPT
              !.snow = snow,
              !.rain = IF refrozen THEN IconFreezing(prob, -area(2), area(3)) ELSE 100 - snow,
              !.ice_pellets = IF refrozen THEN PelletsKept(pellets, area(1)) ELSE 0]

WarmSurface(e, prob, c) ==
  LET area(k) == IF Len(e.surfaceUp) >= k THEN e.surfaceUp[k] ELSE 0
      surfaceMelting == Max({0, area(1)})
      refreezing == Max({0, -area(2)})
      upper == Max({0, area(3)})
      pellets == Share(prob, PelletIce(refreezing, upper))
      kept == PelletsKept(pellets, surfaceMelting)
      refrozen == refreezing > 0 /\ upper > 0
      snow == IconSnow(prob, e)
      rain == IF refrozen THEN Max({IconFreezing(prob, refreezing, upper), pellets - kept})
              ELSE 100 - snow
  IN  IF surfaceMelting <= 0 THEN IconNoAreas(prob, c)
      ELSE [Nothing EXCEPT
              !.snow = snow, !.rain = rain, !.ice_pellets = IF refrozen THEN kept ELSE 0,
              !.freezing_rain_on_ground = IF c.frozen THEN rain ELSE 0]

IconAreas(e, prob, c) ==
  CASE e.surfaceUp = <<>> -> IconNoAreas(prob, c)
    [] e.surfaceUp # <<>> /\ Surface(c) < 0 -> ColdSurface(e, prob, c)
    [] e.surfaceUp # <<>> /\ Surface(c) >= 0 -> WarmSurface(e, prob, c)

(* The categories of the archived surface rates *)
Refine(code, c) ==
  LET rate == [kind \in DOMAIN c.rates |-> Max({0, c.rates[kind]})]
      total == SumFunction(rate)
      material(kind, percent) == rate[kind] >= RateMin /\ 100 * rate[kind] >= percent * total
      ice == {CodeOf.freezing_rain, CodeOf.freezing_drizzle,
              CodeOf.freezing_rain_on_ground, CodeOf.ice_pellets}
  IN  CASE code = NoPrecip \/ total <= RateMin -> code
        [] material("hail", 70) -> IconCodeOf.hail
        [] material("graupel", 70) -> IconCodeOf.graupel
        [] code \in ice -> code
        [] material("rain", 20) /\ material("snow", 20) -> IconCodeOf.rain_snow_mixed
        [] code = CodeOf.snow /\ rate.snow >= RateMin /\ ~material("rain", 20)
             /\ -1 <= 2 * Surface(c) /\ Surface(c) <= 1 -> IconCodeOf.wet_snow
        [] OTHER -> code

DiagnoseIconColumn(c) ==
  LET with(ice) == IF ice.found THEN IconAreas(IconEnergies(c), ice.prob, c) ELSE Nothing
      result(p) == [code |-> Refine(CategoricalCode(p), c), probabilities |-> p]
      orRelaxed(strict) == IF CategoricalCode(strict) = NoPrecip
                             THEN with(IconProbIce(IconLayers(c), TRUE)) ELSE strict
  IN  result(orRelaxed(with(IconProbIce(IconLayers(c), FALSE))))

-----------------------------------------------------------------------------
(* icon_numba_backend.py *)

BelowStart(c) == [k \in 1..(Len(c.tw) - ProfileStart(c)) |-> ProfileStart(c) + k]

IconLayersNumba(c) ==
  LET new(i) == [moist |-> c.moist[i], start |-> i, depth |-> 0, coldest |-> c.t[i]]
      close(l, i) == [l EXCEPT !.depth = c.hh[l.start] - c.hh[i]]
      level(acc, i) ==
        LET l == Last(acc)
        IN  IF c.moist[i] # l.moist THEN Front(acc) \o <<close(l, i), new(i)>>
            ELSE Append(Front(acc), [l EXCEPT !.coldest = Min({@, c.t[i]})])
      all == FoldLeft(level, <<new(ProfileStart(c))>>, BelowStart(c))
  IN  Append(Front(all), close(Last(all), Len(c.tw) + 1))

IconProbIceNumba(layers, relaxed) ==
  IceFrom(LayerScan(layers, relaxed), Min({l.coldest : l \in ToSet(layers)}), relaxed)

IconSignsNumbaWarm(c) ==                        \* faulty: inner zeros count as warm
  LET start == ProfileStart(c)
      first == {j \in start..Len(c.tw) : c.tw[j] # 0}
  IN  [i \in LevelsOf(c) |->
         IF i < start THEN 0
         ELSE IF c.tw[i] # 0 THEN Sign(c.tw[i])
         ELSE IF i = start /\ first # {} THEN Sign(c.tw[Min(first)]) ELSE 1]

IconSignsNumba(c) ==
  LET start == ProfileStart(c)
      raw == [i \in LevelsOf(c) |-> IF i < start THEN 0 ELSE Sign(c.tw[i])]
      later == {j \in (start + 1)..Len(c.tw) : raw[j] # 0}
      fill(s, i) == IF s[i] # 0 THEN s
                    ELSE [s EXCEPT ![i] = IF i > start THEN s[i - 1]
                                          ELSE IF later # {} THEN raw[Min(later)] ELSE 1]
  IN  FoldLeft(fill, raw, <<start>> \o BelowStart(c))

IconAppend(areas, e) == IF Magnitude(e) < SmallArea THEN areas ELSE Merge(areas, e)

(* One step of the loop over the pairs of levels *)
EnergyStep(c, signs, acc, i) ==
  IF signs[i + 1] = acc.sign
  THEN [acc EXCEPT !.segment = @ + acc.sign * LayerEnergy(c, i),
                   !.melting = @ + (IF acc.sign > 0 THEN LayerEnergy(c, i) ELSE 0)]
  ELSE [sign |-> signs[i + 1],
        segment |-> signs[i + 1] * LowerEnergy(c, i),
        keep |-> TRUE,
        areas |-> IF acc.keep THEN IconAppend(acc.areas, acc.segment + acc.sign * UpperEnergy(c, i))
                  ELSE acc.areas,
        melting |-> acc.melting + (IF acc.sign > 0 THEN UpperEnergy(c, i) ELSE 0)
                      + (IF signs[i + 1] > 0 THEN LowerEnergy(c, i) ELSE 0)]

IconEnergiesNumba(c) ==
  LET signs == IconSignsNumba(c)
      start == ProfileStart(c)
      pass == FoldLeft(LAMBDA acc, i : EnergyStep(c, signs, acc, i),
                       [sign |-> signs[start], segment |-> 0, keep |-> FALSE,
                        areas |-> <<>>, melting |-> 0],
                       [k \in 1..(Len(c.tw) - start) |-> start + k - 1])
      energies(end) ==
        [surfaceUp |-> LowestNumba(c, IF end.keep THEN IconAppend(end.areas, end.segment)
                                      ELSE end.areas),
         melting |-> end.melting]
  IN  energies(pass)

IconNumba(c) ==
  LET orElse(ice, otherwise) == IF ice.found THEN IconAreas(IconEnergiesNumba(c), ice.prob, c)
                                ELSE otherwise
      result(p) == [code |-> Refine(CodeNumba(p), c), probabilities |-> p]
      orRelaxed(strict) == IF CodeNumba(strict) = NoPrecip
                             THEN orElse(IconProbIceNumba(IconLayersNumba(c), TRUE), strict)
                             ELSE strict
  IN  result(orRelaxed(orElse(IconProbIceNumba(IconLayersNumba(c), FALSE), Nothing)))
=============================================================================
