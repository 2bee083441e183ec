---------------------------- MODULE RoutesProofs ----------------------------
(***************************************************************************)
(* The route table serves every request by the longest prefix, for every   *)
(* configuration and every set of locations and targets.                   *)
(***************************************************************************)
EXTENDS Routes, TLAPS

Named(i) == config[i].name \in HandlerName

\* What generate_routes has done with the statements before line: an entry is
\* the first of them that has a branch and names the location.
TableInv ==
    /\ \A l \in Location : routes[l] # 0 =>
          /\ routes[l] \in Lines
          /\ routes[l] < line
          /\ Named(routes[l])
          /\ config[routes[l]].location = l
    /\ \A i \in Lines : i < line /\ Named(i) =>
          routes[config[i].location] # 0 /\ routes[config[i].location] <= i
    /\ phase # "generate" => \A i \in Lines : i < line

\* What match has found among the locations already visited.
MatchInv ==
    phase = "match" =>
        /\ IF longest_match_location = Nowhere THEN longest_match = 0
           ELSE /\ routes[longest_match_location] # 0
                /\ <<longest_match_location, target>> \in PrefixOf
                /\ longest_match = LengthOf[longest_match_location]
        /\ \A l \in itr : routes[l] # 0
        /\ \A l \in Location \ itr :
              routes[l] # 0 /\ <<l, target>> \in PrefixOf => LengthOf[l] <= longest_match

RoutesInv == TypeOK /\ TableInv /\ MatchInv /\ ServedByLongestPrefix

USE LengthAssumption, NowhereAssumption, StatementsAssumption

\* A statement of a configuration has a number that is positive, a location
\* and a name; the next number is the line to read after the last.
LEMMA ConfigFacts ==
    ASSUME NEW c \in Config
    PROVE  /\ DOMAIN c \subseteq Nat \ {0}
           /\ \A i \in DOMAIN c : c[i].location \in Location
           /\ \A i \in DOMAIN c, j \in Nat \ {0} : j \notin DOMAIN c => i < j
<1>1. PICK n \in 0..MaxStatements : c \in [1..n -> Statement]
  BY DEF Config
<1>2. n \in Nat /\ DOMAIN c = 1..n
  BY <1>1
<1>3. \A i \in DOMAIN c : c[i].location \in Location
  BY <1>1, <1>2 DEF Statement
<1> QED
  BY <1>2, <1>3

LEMMA InitInv == Init => RoutesInv
<1> SUFFICES ASSUME Init PROVE RoutesInv
  OBVIOUS
<1>1. TypeOK
  BY DEF Init, TypeOK
<1>2. TableInv
  BY <1>1, ConfigFacts DEF Init, TableInv, TypeOK, Lines
<1> QED
  BY <1>1, <1>2 DEF Init, RoutesInv, MatchInv, ServedByLongestPrefix

\* A statement read leaves the entries before it, and adds one at most.
LEMMA GenerateInv ==
    ASSUME RoutesInv, GenerateRoute
    PROVE  RoutesInv'
<1> USE DEF RoutesInv
<1>1. line \in Lines /\ line \in Nat \ {0} /\ config[line].location \in Location
  BY ConfigFacts DEF GenerateRoute, TypeOK, Lines
<1>2. TypeOK'
  BY <1>1 DEF GenerateRoute, TypeOK, Insert, lookup
<1>3. Lines' = Lines /\ config' = config /\ phase' = phase /\ phase = "generate"
  BY DEF GenerateRoute, Lines
<1> DEFINE k == config[line].location
<1>4. /\ \A l \in Location : l # k => routes'[l] = routes[l]
      /\ routes[k] # 0 => routes'[k] = routes[k]
      /\ routes[k] = 0 => routes'[k] = IF Named(line) THEN line ELSE 0
  BY <1>1 DEF GenerateRoute, TypeOK, Insert, Named
<1>5. /\ line' = line + 1
      /\ \A i \in Lines : i \in Nat /\ config[i].location \in Location
  BY ConfigFacts DEF Lines, TypeOK, GenerateRoute
<1>6. \A l \in Location : routes'[l] # 0 =>
          /\ routes'[l] \in Lines
          /\ routes'[l] < line'
          /\ Named(routes'[l])
          /\ config[routes'[l]].location = l
  BY <1>1, <1>4, <1>5 DEF TableInv, TypeOK
<1>7. Named(line) => routes'[k] # 0 /\ routes'[k] <= line
  BY <1>1, <1>4, <1>5 DEF TableInv, TypeOK
<1>8. \A i \in Lines : i < line' /\ Named(i) =>
          routes'[config[i].location] # 0 /\ routes'[config[i].location] <= i
  <2> SUFFICES ASSUME NEW i \in Lines, i < line', Named(i)
               PROVE  routes'[config[i].location] # 0 /\ routes'[config[i].location] <= i
    OBVIOUS
  <2>1. CASE i = line
    BY <1>7, <2>1
  <2>2. CASE i # line
    <3>1. routes[config[i].location] # 0 /\ routes[config[i].location] <= i
      BY <1>1, <1>5, <2>2 DEF TableInv
    <3> QED
      BY <1>1, <1>4, <1>5, <3>1
  <2> QED
    BY <2>1, <2>2
<1>9. TableInv'
  BY <1>3, <1>6, <1>8 DEF TableInv, Named
<1> QED
  BY <1>2, <1>3, <1>9 DEF MatchInv, ServedByLongestPrefix

LEMMA PublishInv ==
    ASSUME RoutesInv, Publish
    PROVE  RoutesInv'
<1> USE DEF RoutesInv
<1>1. \A i \in Lines : i < line
  BY ConfigFacts DEF Publish, TypeOK, Lines
<1> QED
  BY <1>1 DEF Publish, TypeOK, TableInv, MatchInv, ServedByLongestPrefix, lookup, Lines, Named

LEMMA BeginMatchInv ==
    ASSUME RoutesInv, NEW t \in Target, BeginMatch(t)
    PROVE  RoutesInv'
<1> USE DEF RoutesInv, BeginMatch
<1>1. TypeOK'
  BY DEF TypeOK
<1>2. TableInv'
  BY DEF TableInv, Lines, Named
<1>3. MatchInv'
  BY DEF MatchInv
<1> QED
  BY <1>1, <1>2, <1>3 DEF ServedByLongestPrefix

\* One turn of the loop keeps the best location found so far.
LEMMA VisitInv ==
    ASSUME RoutesInv, NEW l \in Location, Visit(l)
    PROVE  RoutesInv'
<1> USE DEF RoutesInv
<1>1. TypeOK'
  BY DEF TypeOK, Visit
<1>2. TableInv'
  BY DEF TableInv, Lines, Named, Visit
<1>3. MatchInv'
  <2>0. /\ phase = "match" /\ target' = target /\ routes' = routes
        /\ itr' = itr \ {l}
        /\ longest_match \in Nat
        /\ LengthOf[l] \in Nat \ {0}
    BY DEF Visit, TypeOK
  <2>1. CASE Replaces(l)
    <3>1. /\ longest_match' = LengthOf[l] /\ longest_match_location' = l
          /\ <<l, target>> \in PrefixOf /\ LengthOf[l] > longest_match
          /\ l # Nowhere
      BY <2>1 DEF Visit, Replaces
    <3>2. routes[l] # 0
      BY DEF Visit, MatchInv, TypeOK
    <3>3. \A m \in Location \ itr' :
              routes[m] # 0 /\ <<m, target>> \in PrefixOf => LengthOf[m] <= longest_match'
      BY <2>0, <3>1 DEF MatchInv
    <3> QED
      BY <2>0, <3>1, <3>2, <3>3 DEF MatchInv
  <2>2. CASE ~Replaces(l)
    <3>1. UNCHANGED <<longest_match, longest_match_location>>
      BY <2>2 DEF Visit
    <3>2. <<l, target>> \in PrefixOf => LengthOf[l] <= longest_match
      BY <2>0, <2>2 DEF Replaces
    <3> QED
      BY <2>0, <3>1, <3>2 DEF MatchInv
  <2> QED
    BY <2>1, <2>2
<1> QED
  BY <1>1, <1>2, <1>3 DEF Visit, ServedByLongestPrefix

\* What match returns is the choice the configuration asks for.
LEMMA ServeInv ==
    ASSUME RoutesInv, Serve
    PROVE  RoutesInv'
<1> USE DEF RoutesInv
<1>0. /\ UNCHANGED <<config, line, routes, target, longest_match, longest_match_location>>
      /\ phase = "match" /\ phase' = "served" /\ itr = {} /\ itr' = {}
  BY DEF Serve
<1>1. TypeOK'
  BY DEF TypeOK, Serve
<1>2. TableInv'
  BY <1>0 DEF TableInv, Lines, Named
<1>3. \A i \in Serving(target) :
          /\ i \in Lines /\ i \in Nat /\ config[i].location \in Location
          /\ <<config[i].location, target>> \in PrefixOf
          /\ routes[config[i].location] # 0 /\ routes[config[i].location] <= i
          /\ LengthOf[config[i].location] <= longest_match
  BY <1>0, ConfigFacts DEF Serving, TypeOK, Lines, TableInv, MatchInv, Named
<1>l. \A l \in Location : LengthOf[l] \in Nat \ {0}
  OBVIOUS
<1>4. ServedByLongestPrefix'
  <2>1. CASE longest_match_location = Nowhere
    <3>1. longest_match = 0 /\ factory' = 0
      BY <1>0, <2>1 DEF MatchInv, Serve
    <3>2. Serving(target) = {}
      <4> SUFFICES ASSUME NEW i \in Serving(target) PROVE FALSE
        OBVIOUS
      <4>1. LengthOf[config[i].location] <= 0 /\ LengthOf[config[i].location] \in Nat \ {0}
        BY <1>3, <1>l, <3>1
      <4> QED
        BY <4>1
    <3> QED
      BY <1>0, <3>1, <3>2 DEF ServedByLongestPrefix, Serving, Lines
  <2>2. CASE longest_match_location # Nowhere
    <3> DEFINE m == longest_match_location
               f == routes[m]
    <3>1. /\ m \in Location /\ f # 0 /\ <<m, target>> \in PrefixOf
          /\ longest_match = LengthOf[m] /\ factory' = f
      BY <1>0, <2>2 DEF MatchInv, Serve, TypeOK
    <3>2. f \in Lines /\ Named(f) /\ config[f].location = m
      BY <3>1 DEF TableInv
    <3>3. f \in Serving(target)
      BY <3>1, <3>2 DEF Serving, Named
    <3>4. ASSUME NEW i \in Serving(target)
          PROVE  \/ LengthOf[config[i].location] < LengthOf[config[f].location]
                 \/ config[i].location = config[f].location /\ f <= i
      <4>1. CASE LengthOf[config[i].location] = LengthOf[m]
        <5>1. config[i].location = m
          BY <1>3, <3>1, <4>1, SameLengthAssumption, PrefixAssumption
        <5> QED
          BY <1>3, <3>2, <5>1
      <4>2. CASE LengthOf[config[i].location] # LengthOf[m]
        <5>1. LengthOf[config[i].location] \in Nat /\ LengthOf[m] \in Nat
          BY <1>3, <1>l, <3>1
        <5>2. LengthOf[config[i].location] <= LengthOf[m]
          BY <1>3, <3>1
        <5> QED
          BY <3>2, <4>2, <5>1, <5>2
      <4> QED
        BY <4>1, <4>2
    <3> HIDE DEF m, f
    <3> QED
      BY <1>0, <3>1, <3>3, <3>4 DEF ServedByLongestPrefix, Serving, Lines
  <2> QED
    BY <2>1, <2>2
<1>5. MatchInv'
  BY <1>0 DEF MatchInv
<1> QED
  BY <1>1, <1>2, <1>4, <1>5

LEMMA NextInv == RoutesInv /\ [Next]_vars => RoutesInv'
<1> SUFFICES ASSUME RoutesInv, [Next]_vars PROVE RoutesInv'
  OBVIOUS
<1>1. CASE GenerateRoute
  BY <1>1, GenerateInv
<1>2. CASE Publish
  BY <1>2, PublishInv
<1>3. CASE \E t \in Target : BeginMatch(t)
  BY <1>3, BeginMatchInv
<1>4. CASE \E l \in Location : Visit(l)
  BY <1>4, VisitInv
<1>5. CASE Serve
  BY <1>5, ServeInv
<1>6. CASE UNCHANGED vars
  BY <1>6 DEF vars, RoutesInv, TypeOK, TableInv, MatchInv, ServedByLongestPrefix, Serving,
              Lines, Named
<1> QED
  BY <1>1, <1>2, <1>3, <1>4, <1>5, <1>6 DEF Next

\* Whatever the configuration and the order in which match visits the map, a
\* request goes to the factory of the first statement with the longest
\* location that is a prefix of its target, or to none when there is none.
THEOREM LongestPrefixServes == Spec => []ServedByLongestPrefix
<1>1. RoutesInv => ServedByLongestPrefix
  BY DEF RoutesInv
<1> QED
  BY <1>1, InitInv, NextInv, PTL DEF Spec
=============================================================================
