------------------------------- MODULE Routes -------------------------------
(***************************************************************************)
(* The route table: server::generate_routes builds it from the statements  *)
(* of the server blocks, session::match finds the location of a request in *)
(* it, session::handle_read the factory.                                   *)
(*                                                                         *)
(* Locations and request targets are model values; what the code computes  *)
(* from their characters are the constants PrefixOf and LengthOf.  A       *)
(* factory is known by the number of the statement it was made for.        *)
(***************************************************************************)
EXTENDS Integers

CONSTANTS
    Location,       \* locations the configuration may name
    Target,         \* request targets
    PrefixOf,       \* the pairs <<l, t>> with t.substr(0, l.length()) = l
    LengthOf,       \* std::string::length of locations
    HandlerName,    \* the names generate_routes has a branch for
    OtherName,      \* names it has none for
    MaxStatements,  \* bound: statements in a configuration
    Nowhere         \* the empty string match starts with

ASSUME PrefixAssumption == PrefixOf \subseteq Location \X Target
ASSUME LengthAssumption == LengthOf \in [Location -> Nat \ {0}]
\* Prefixes of one string that have the same length are the same.
ASSUME SameLengthAssumption ==
    \A t \in Target, l, m \in Location :
        <<l, t>> \in PrefixOf /\ <<m, t>> \in PrefixOf /\ LengthOf[l] = LengthOf[m] => l = m
ASSUME NowhereAssumption == Nowhere \notin Location
ASSUME StatementsAssumption == MaxStatements \in Nat
ASSUME NamesAssumption == HandlerName \cap OtherName = {}

VARIABLES
    config,     \* the location statements, in the order of the file
    line,       \* generate_routes: the statement to read next
    routes,     \* location -> statement of its factory, 0 when there is none
    phase,      \* "generate", "wait" for a request, "match", "served"
    target,     \* the request's target
    itr,        \* match: the locations the iterator has not visited
    longest_match, longest_match_location,
    factory     \* the factory that serves the request, 0 for a 400

vars == <<config, line, routes, phase, target, itr, longest_match,
          longest_match_location, factory>>

lookup == <<target, itr, longest_match, longest_match_location, factory>>

Statement == [location : Location, name : HandlerName \cup OtherName]

Config == UNION {[1..n -> Statement] : n \in 0..MaxStatements}

Lines == DOMAIN config

Init ==
    /\ config \in Config
    /\ line = 1
    /\ routes = [l \in Location |-> 0]
    /\ phase = "generate"
    /\ target \in Target
    /\ itr = {}
    /\ longest_match = 0
    /\ longest_match_location = Nowhere
    /\ factory = 0

\* std::map::insert has no effect on a location that is there.
Insert(map, l, i) == [map EXCEPT ![l] = IF @ = 0 THEN i ELSE @]

\* One location statement: a branch inserts the factory, or no branch does.
GenerateRoute ==
    /\ phase = "generate"
    /\ line \in Lines
    /\ routes' = IF config[line].name \in HandlerName
                 THEN Insert(routes, config[line].location, line) ELSE routes
    /\ line' = line + 1
    /\ UNCHANGED <<config, phase, lookup>>

\* generate_routes publishes the table, the server starts.
Publish ==
    /\ phase = "generate"
    /\ line \notin Lines
    /\ phase' = "wait"
    /\ UNCHANGED <<config, line, routes, lookup>>

\* handle_read calls match.
BeginMatch(t) ==
    /\ phase \in {"wait", "served"}
    /\ phase' = "match"
    /\ target' = t
    /\ itr' = {l \in Location : routes[l] # 0}
    /\ longest_match' = 0
    /\ longest_match_location' = Nowhere
    /\ UNCHANGED <<config, line, routes, factory>>

\* Mutant: the loop stops at its first match.
ReplacesOnce(l) == <<l, target>> \in PrefixOf /\ longest_match = 0

\* sub_url == itr->first && sub_url.length() > longest_match
Replaces(l) == <<l, target>> \in PrefixOf /\ LengthOf[l] > longest_match

\* One turn of the loop.  The map is ordered; any order is allowed here.
Visit(l) ==
    /\ phase = "match"
    /\ l \in itr
    /\ itr' = itr \ {l}
    /\ longest_match' = IF Replaces(l) THEN LengthOf[l] ELSE longest_match
    /\ longest_match_location' = IF Replaces(l) THEN l ELSE longest_match_location
    /\ UNCHANGED <<config, line, routes, phase, target, factory>>

\* match returns: routes_.count(location), then routes_[location] or a 400.
Serve ==
    /\ phase = "match"
    /\ itr = {}
    /\ phase' = "served"
    /\ factory' = IF longest_match_location = Nowhere THEN 0
                  ELSE routes[longest_match_location]
    /\ UNCHANGED <<config, line, routes, target, itr, longest_match, longest_match_location>>

Next ==
    \/ GenerateRoute
    \/ Publish
    \/ \E t \in Target : BeginMatch(t)
    \/ \E l \in Location : Visit(l)
    \/ Serve

Spec == Init /\ [][Next]_vars

-----------------------------------------------------------------------------

TypeOK ==
    /\ config \in Config
    /\ line \in Nat \ {0}
    /\ routes \in [Location -> Nat]
    /\ phase \in {"generate", "wait", "match", "served"}
    /\ target \in Target
    /\ itr \subseteq Location
    /\ longest_match \in Nat
    /\ longest_match_location \in Location \cup {Nowhere}
    /\ factory \in Nat

\* The statements that can serve the target.
Serving(t) ==
    {i \in Lines : config[i].name \in HandlerName /\ <<config[i].location, t>> \in PrefixOf}

\* "Uses longest prefix matching to make the choice" (session::match): read
\* from the configuration alone, a request is served by the statement with
\* the longest location that is a prefix of its target, by the first of those
\* that name this location, and is refused exactly when there is none.
ServedByLongestPrefix ==
    phase = "served" =>
        IF Serving(target) = {} THEN factory = 0
        ELSE /\ factory \in Serving(target)
             /\ \A i \in Serving(target) :
                    \/ LengthOf[config[i].location] < LengthOf[config[factory].location]
                    \/ config[i].location = config[factory].location /\ factory <= i
=============================================================================
