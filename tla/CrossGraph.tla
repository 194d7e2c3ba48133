----------------------------- MODULE CrossGraph -----------------------------
(***************************************************************************)
(* Which legs price a pair: the graph of the primaries over asset ids, the *)
(* route between two assets, the quote composed over it, and the catalogue *)
(* of crosses (rust/src/synth/cross.rs, cross_expand.rs).                  *)
(*                                                                         *)
(* A primary is [id, sym, base, quote, spelled]: sym its place in the      *)
(* order of symbols, spelled whether its text names its two sides.  Assets *)
(* are numbers, as the packed ids they stand for.                          *)
(***************************************************************************)
EXTENDS Synth

CONSTANTS Peg,      \* series_alias::peg_asset: a parity wrap to its underlying
          Names,    \* asset to its name and aliases in the MITCH tables
          MaxHops,  \* MAX_HOPS
          Endless   \* f64::INFINITY of depth

Pegged(a) == Peg[a]
Tokens == UNION Range(Names)
NoRoute == <<>>
NoAsset == -1

(* A ticker is an edge both ways; one against itself is none.              *)
FromPrimaries(primaries) ==
  UNION {{[at |-> p.base, peer |-> p.quote, exp |-> 1, sym |-> p.sym, id |-> p.id],
          [at |-> p.quote, peer |-> p.base, exp |-> -1, sym |-> p.sym, id |-> p.id]} :
         p \in {p \in primaries : p.base # p.quote}}
Nodes(adj) == {e.at : e \in adj}

(* What a token means: the spelling of a primary before an alias, then the *)
(* asset with the most edges, then the lower id.                           *)
Token(primaries, says) ==
  LET adj == FromPrimaries(primaries)
      spelled(t, a) == {p \in primaries : p.spelled /\ p.base # p.quote /\
                          \/ p.base = a /\ says[a] = t
                          \/ p.quote = a /\ says[a] = t}
      degree(a) == Cardinality({e \in adj : e.at = a})
      count(t, a) == Greatest({Cardinality(spelled(t, a)),
                               IF t \in Names[a] THEN degree(a) ELSE 0})
      meant(t) == {a \in Nodes(adj) : spelled(t, a) # {} \/ t \in Names[a]}
      better(t, a, b) ==
        \/ spelled(t, a) # {} /\ spelled(t, b) = {}
        \/ (spelled(t, a) = {}) = (spelled(t, b) = {})
           /\ (count(t, a) > count(t, b) \/ (count(t, a) = count(t, b) /\ a < b))
  IN  [t \in {t \in Tokens : meant(t) # {}} |->
         CHOOSE a \in meant(t) : \A b \in meant(t) \ {a} : better(t, a, b)]

---------------------------------------------------------------------------
(* The search: pop the candidate with the fewest legs, then the deepest    *)
(* thinnest leg, then the smallest symbols; skip a dominated arrival.      *)
RECURSIVE Before(_, _)
Before(s, t) == \/ s = <<>> /\ t # <<>>
                \/ s # <<>> /\ t # <<>> /\ (Head(s).sym < Head(t).sym
                                            \/ (Head(s).sym = Head(t).sym /\ Before(Tail(s), Tail(t))))
Preferred(c, d) ==
  \/ Len(c.legs) < Len(d.legs)
  \/ Len(c.legs) = Len(d.legs) /\ c.depth > d.depth
  \/ Len(c.legs) = Len(d.legs) /\ c.depth = d.depth /\ Before(c.legs, d.legs)
Dominated(best, c) ==
  /\ c.at \in DOMAIN best
  /\ \/ best[c.at][1] < Len(c.legs)
     \/ best[c.at][1] = Len(c.legs) /\ best[c.at][2] >= c.depth
Admissible(c, e, quote, barred) ==
  /\ e.at = c.at /\ e.id # barred
  /\ Len(c.legs) + 1 = MaxHops => e.peer = quote
  /\ e.peer \notin c.path
Step(c, e, vol) == [at |-> e.peer, depth |-> Least({c.depth, vol[e.id]}),
                    path |-> c.path \cup {e.peer},
                    legs |-> Append(c.legs, [sym |-> e.sym, exp |-> e.exp, id |-> e.id])]
RECURSIVE Search(_, _, _, _, _, _)
Search(adj, heap, best, quote, vol, barred) ==
  IF heap = {} THEN NoRoute
  ELSE LET c == CHOOSE c \in heap : \A d \in heap \ {c} : Preferred(c, d)
           rest == heap \ {c}
           more == {Step(c, e, vol) : e \in {e \in adj : Admissible(c, e, quote, barred)}}
       IN  IF c.at = quote THEN c.legs
           ELSE IF Len(c.legs) >= MaxHops \/ Dominated(best, c)
           THEN Search(adj, rest, best, quote, vol, barred)
           ELSE Search(adj, rest \cup more, (c.at :> <<Len(c.legs), c.depth>>) @@ best,
                       quote, vol, barred)
RouteBarring(adj, base, quote, vol, barred) ==
  LET b == Pegged(base)  q == Pegged(quote)
      start == [at |-> b, depth |-> Endless, path |-> {b}, legs |-> <<>>]
  IN  IF b = q THEN NoRoute ELSE Search(adj, {start}, <<>>, q, vol, barred)

(* The pairs advertised: per node, whatever a hop-bounded flood reaches.   *)
RECURSIVE Flood(_, _, _)
Flood(adj, seen, hops) ==
  IF hops = 0 THEN seen ELSE Flood(adj, seen \cup {e.peer : e \in {e \in adj : e.at \in seen}}, hops - 1)
ServablePairs(adj) ==
  {p \in Nodes(adj) \X Nodes(adj) :
     Pegged(p[1]) # Pegged(p[2]) /\ Pegged(p[2]) \in Flood(adj, {Pegged(p[1])}, MaxHops)}

---------------------------------------------------------------------------
(* The quote of a route and where it comes from.  quotes[id] is a leg's    *)
(* live record: [mid, bid, ask, conf, age, ci, packed, accepted], age -1   *)
(* when never observed, ci 0 when unknown, packed <<>> without the flag.   *)
FromIndex(idx, age) ==
  [mid |-> idx.mid, bid |-> idx.bid, ask |-> idx.ask, conf |-> idx.conf, age |-> age, ci |-> idx.ci,
   packed |-> IF idx.active THEN [live |-> idx.live, fresh |-> idx.fresh] ELSE <<>>,
   accepted |-> idx.accepted]
Compose(route, quotes) ==
  LET q(i) == quotes[route[i].id]
      tick == ComposeLegs([i \in DOMAIN route |-> [exp |-> route[i].exp] @@ q(i)])
      every == {q(i) : i \in DOMAIN route}
  IN  IF \E i \in DOMAIN route : route[i].id \notin DOMAIN quotes THEN NoTick
      ELSE IF tick = NoTick THEN NoTick
      ELSE tick @@
        [age |-> IF route = <<>> \/ \E x \in every : x.age = -1 THEN -1
                 ELSE Greatest({x.age : x \in every}),
         ci |-> IF \E x \in every : x.ci = 0 THEN 0
                ELSE Root(MapThenSumSet(LAMBDA i : q(i).ci * q(i).ci, DOMAIN route)),
         packed |-> IF route = <<>> \/ \E x \in every : x.packed = <<>> THEN <<>>
                    ELSE [live |-> Least({x.packed.live : x \in every}),
                          fresh |-> \A x \in every : x.packed.fresh],
         accepted |-> IF route = <<>> THEN 0 ELSE Least({x.accepted : x \in every})]

---------------------------------------------------------------------------
(* The catalogue of the pipeline: every ordered pair of distinct assets,   *)
(* both legs against the storage quote; a primary is not a cross.          *)
AllCryptoCrosses(assets) == {p \in assets \X assets : p[1] # p[2]}
LegsForCross(p, hub) == <<<<p[1], hub>>, <<p[2], hub>>>>
ExpandCrossPairs(crosses, bases, hub, resolving) ==
  LET kept == {p \in crosses : /\ ~(p[2] = hub /\ p[1] \in bases)
                               /\ p[2] # hub /\ p[1] # p[2]
                               /\ Range(LegsForCross(p, hub)) \subseteq resolving}
  IN  {[synth |-> p, base |-> LegsForCross(p, hub)[1], quote |-> LegsForCross(p, hub)[2]] : p \in kept}
SynthPipelinePairs(assets, bases, hub, resolving) ==
  ExpandCrossPairs(AllCryptoCrosses(assets), bases, hub, resolving)

---------------------------------------------------------------------------
(* The routes there are: paths of primaries from base to quote that visit  *)
(* no asset twice and never take the barred ticker.                        *)
RECURSIVE Paths(_, _, _, _, _)
Paths(adj, at, quote, seen, hops) ==
  IF at = quote THEN {<<>>}
  ELSE IF hops = 0 THEN {}
  ELSE UNION {{<<e>> \o p : p \in Paths(adj, e.peer, quote, seen \cup {e.peer}, hops - 1)} :
              e \in {e \in adj : e.at = at /\ e.peer \notin seen}}
Depth(route, vol) == Least({Endless} \cup {vol[leg.id] : leg \in Range(route)})
Best(p, paths, vol) == \A r \in paths : Len(p) < Len(r) \/ (Len(p) = Len(r) /\ Depth(p, vol) >= Depth(r, vol))

(* A route is found exactly when there is one, it leads from base to quote *)
(* without the barred ticker, and no other has fewer legs or, with as many,*)
(* a deeper thinnest leg.                                                  *)
RouteSound(primaries, base, quote, vol, barred) ==
  LET adj == {e \in FromPrimaries(primaries) : e.id # barred}
      b == Pegged(base)  q == Pegged(quote)
      paths == IF b = q THEN {} ELSE Paths(adj, b, q, {b}, MaxHops)
      found == RouteBarring(FromPrimaries(primaries), base, quote, vol, barred)
      legs(p) == [i \in DOMAIN p |-> [sym |-> p[i].sym, exp |-> p[i].exp, id |-> p[i].id]]
  IN  /\ (found = NoRoute) = (paths = {})
      /\ found # NoRoute => \E p \in paths : legs(p) = found /\ Best(p, paths, vol)

(* What is advertised routes, and a pair of quoted assets that routes is   *)
(* advertised.                                                             *)
ServableSound(primaries, vol) ==
  LET adj == FromPrimaries(primaries)
  IN  \A p \in Nodes(adj) \X Nodes(adj) :
        (p \in ServablePairs(adj)) = (RouteBarring(adj, p[1], p[2], vol, NoAsset) # NoRoute)

(* A composed quote is as old as its oldest leg and as doubtful as all of  *)
(* them: nothing unknown becomes known.                                    *)
ProvenanceSound(route, quotes) ==
  LET c == Compose(route, quotes)
  IN  c # NoTick => \A i \in DOMAIN route : LET q == quotes[route[i].id] IN
        /\ c.age # -1 => q.age # -1 /\ c.age >= q.age
        /\ c.ci # 0 => q.ci # 0 /\ c.ci >= q.ci
        /\ c.packed # <<>> => q.packed # <<>> /\ c.packed.live <= q.packed.live
                              /\ (c.packed.fresh => q.packed.fresh)
        /\ c.accepted <= q.accepted /\ c.conf <= q.conf

(* A cross of the catalogue prices what its name says over the primaries.  *)
CatalogueSound(assets, bases, hub) ==
  LET prims == {[id |-> a, sym |-> a, base |-> a, quote |-> hub, spelled |-> TRUE] : a \in assets}
      known == {<<a, hub>> : a \in assets}
  IN  \A x \in SynthPipelinePairs(assets, bases, hub, known) :
        Pegged(x.synth[1]) # Pegged(x.synth[2]) /\ hub \notin Range(x.synth)
        /\ {x.synth[1], x.synth[2], hub} \cap {a \in assets : Peg[a] # a} = {} =>
          RouteBarring(FromPrimaries(prims), x.synth[1], x.synth[2], [a \in assets |-> 0], NoAsset)
            = <<[sym |-> x.synth[1], exp |-> 1, id |-> x.synth[1]],
                [sym |-> x.synth[2], exp |-> -1, id |-> x.synth[2]]>>
=============================================================================
