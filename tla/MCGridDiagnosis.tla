--------------------------- MODULE MCGridDiagnosis ---------------------------
(* Grids for model checking GridDiagnosis: all wet-bulb profiles of seven   *)
(* levels over few heights, all layer structures of five levels, all        *)
(* combinations of surface rates, and small grids with unusable columns.    *)
EXTENDS GridDiagnosis

(* 15 energy units are about 1 J/kg when a height unit is 50 m *)
MCEnergyUnit == 12
MCJoulePerKg == 15

MCProbIceOf(t) == CASE t <= -15 -> 100 [] t >= -7 -> 0 [] OTHER -> 51

MCSnowIce(e) == CASE e <= 9 * 15 -> 100 [] e > 9 * 15 /\ e <= 12 * 15 -> 60
                  [] e > 12 * 15 /\ e <= 20 * 15 -> 15 [] e > 20 * 15 -> 0

MCLayeredSnowIce(e) == CASE e <= 10 * 15 -> 100 [] e > 10 * 15 /\ e <= 12 * 15 -> 60
                         [] e > 12 * 15 /\ e <= 21 * 15 -> 15 [] e > 21 * 15 -> 0

MCLogMelt(e) == CASE e <= 0 -> 0 [] e > 0 /\ e <= 3 * 15 -> 40 [] e > 3 * 15 /\ e <= 8 * 15 -> 80
                  [] e > 8 * 15 /\ e <= 24 * 15 -> 120 [] e > 24 * 15 -> 160

(* The tables are of the kind the theorems assume *)
ASSUME TablesAssumption == TablesOver(-3000..3000)

NoRates == [rain |-> 0, snow |-> 0, graupel |-> 0, hail |-> 0]

(* Half levels lie one below and above the full levels h *)
Half(h) == [i \in 1..(Len(h) + 1) |-> IF i = Len(h) + 1 THEN 0
                                      ELSE IF i = 1 THEN h[1] + 1 ELSE (h[i - 1] + h[i]) \div 2]

Column(tw, t, moist, h) ==
  [tw |-> tw, t |-> t, moist |-> moist, h |-> h, hh |-> Half(h),
   frozen |-> FALSE, rates |-> NoRates, amount |-> 5, groundFinite |-> TRUE,
   profileFinite |-> TRUE, physical |-> TRUE, ratesFinite |-> TRUE]

Everywhere(n, x) == [i \in 1..n |-> x]

(* Levels between which an area is large, or so thin that it is dropped;  *)
(* the top of the last profile, with one very deep layer, is above the cutoff *)
AreaHeights == {<<37, 27, 26, 18, 10, 2, 1>>, <<31, 21, 19, 17, 7, 5, 4>>,
                <<520, 510, 505, 504, 105, 55, 5>>}

AreaColumns ==
  {[Column(tw, Everywhere(7, t), Everywhere(7, TRUE), h) EXCEPT !.frozen = (t = 0)] :
     tw \in [1..7 -> {-1, 0, 1}], t \in {-20, 0}, h \in AreaHeights}

DeepColumns ==
  {Column(tw, Everywhere(6, -10), Everywhere(6, TRUE), <<30, 26, 18, 10, 2, 1>>) :
     tw \in [1..6 -> {-2, 1, 2}]}

LayerColumns ==
  {Column(Everywhere(5, 1), t, moist, <<71, 46, 36, 26, 1>>) :
     t \in [1..5 -> {-20, -10}], moist \in [1..5 -> BOOLEAN]}

RateColumns ==
  {[Column(tw, Everywhere(3, t), Everywhere(3, TRUE), <<21, 11, 1>>)
      EXCEPT !.rates = [rain |-> r, snow |-> s, graupel |-> g, hail |-> h]] :
     tw \in {<<-2, -2, s>> : s \in {-2, 0, 1, 2}} \union {<<-2, 2, 2>>}, t \in {-20, 0},
     r \in {-1, 0, 1, 4}, s \in {0, 1, 4}, g \in {0, 10}, h \in {0, 10}}

Snowfall == Column(Everywhere(3, -1), Everywhere(3, -20), Everywhere(3, TRUE), <<41, 21, 1>>)
Rainfall == Column(<<-1, 1, 1>>, Everywhere(3, 0), Everywhere(3, TRUE), <<41, 21, 1>>)
Samples ==
  {Snowfall, Rainfall, [Snowfall EXCEPT !.amount = 1], [Rainfall EXCEPT !.amount = 0],
   [Rainfall EXCEPT !.amount = Missing], [Rainfall EXCEPT !.amount = 0, !.profileFinite = FALSE],
   [Snowfall EXCEPT !.profileFinite = FALSE], [Snowfall EXCEPT !.amount = 1, !.groundFinite = FALSE],
   [Rainfall EXCEPT !.physical = FALSE], [Rainfall EXCEPT !.ratesFinite = FALSE]}

MCGrids == {<<c>> : c \in AreaColumns \union DeepColumns \union LayerColumns \union RateColumns}
             \union [1..3 -> Samples]
MCAreaGrids == {<<c>> : c \in AreaColumns}
=============================================================================
