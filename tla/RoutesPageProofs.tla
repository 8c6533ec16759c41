-------------------------- MODULE RoutesPageProofs --------------------------
(***************************************************************************)
(* The routes page for any browsers, routes, paths and URLs: the types,    *)
(* and that every route that is posted or listed leads to one place.       *)
(***************************************************************************)
EXTENDS RoutesPage, WellFoundedInduction, FiniteSetTheorems, TLAPS

---------------------------------------------------------------------------
(* Lists, of whatever elements.                                            *)

\* A list is a function from the places up to its length.
LEMMA ListFacts ==
  ASSUME NEW list, IsList(list)
  PROVE  /\ Len(list) \in Nat /\ DOMAIN list = 1..Len(list)
         /\ list = [n \in 1..Len(list) |-> list[n]]
BY DEF IsList

\* Such a function is a list.
LEMMA FunctionIsList ==
  ASSUME NEW N \in Nat, NEW list, DOMAIN list = 1..N, list = [n \in 1..N |-> list[n]]
  PROVE  IsList(list) /\ Len(list) = N
<1> DEFINE S == {list[n] : n \in 1..N}
<1>1. list \in [1..N -> S]
  OBVIOUS
<1>2. list \in Seq(S)
  BY <1>1
<1> QED
  BY <1>2 DEF IsList

\* The list without elements.
LEMMA EmptyList == IsList(<<>>) /\ Len(<<>>) = 0
BY DEF IsList

\* A list of one element.
LEMMA OneElement == ASSUME NEW x PROVE IsList(<<x>>) /\ Len(<<x>>) = 1
<1>1. <<x>> \in Seq({x})
  OBVIOUS
<1>2. {<<x>>[n] : n \in DOMAIN <<x>>} = {x}
  OBVIOUS
<1> QED
  BY <1>1, <1>2 DEF IsList

\* A list with one element more, or another one.
LEMMA AppendType ==
  ASSUME NEW list, IsList(list), NEW x
  PROVE  /\ IsList(Append(list, x)) /\ Len(Append(list, x)) = Len(list) + 1
         /\ \A n \in 1..Len(list) : Append(list, x)[n] = list[n]
         /\ Append(list, x)[Len(list) + 1] = x
<1> DEFINE S == {list[n] : n \in DOMAIN list} \cup {x}
           longer == Append(list, x)
<1>1. list \in Seq(S)
  BY DEF IsList
<1>2. /\ longer \in Seq(S) /\ Len(longer) = Len(list) + 1 /\ Len(list) \in Nat
      /\ \A n \in 1..Len(list) : longer[n] = list[n]
      /\ longer[Len(list) + 1] = x
  BY <1>1
<1> HIDE DEF longer, S
<1>3. longer \in [1..Len(longer) -> S] /\ Len(longer) \in Nat
  BY <1>2
<1>4. IsList(longer)
  BY <1>3, FunctionIsList
<1> QED
  BY <1>2, <1>4 DEF longer

\* A list with another element at one place.
LEMMA ExceptType ==
  ASSUME NEW list, IsList(list), NEW i, NEW x
  PROVE  IsList([list EXCEPT ![i] = x]) /\ Len([list EXCEPT ![i] = x]) = Len(list)
<1> DEFINE other == [list EXCEPT ![i] = x]
<1>1. Len(list) \in Nat /\ DOMAIN list = 1..Len(list)
  BY ListFacts
<1>2. DOMAIN other = 1..Len(list) /\ other = [n \in 1..Len(list) |-> other[n]]
  BY <1>1
<1> HIDE DEF other
<1>3. IsList(other) /\ Len(other) = Len(list)
  BY <1>1, <1>2, FunctionIsList
<1> QED
  BY <1>3 DEF other

---------------------------------------------------------------------------
(* What filter leaves of a list.                                           *)

\* A set of natural numbers that is not empty has a least one.
LEMMA LeastNatural ==
  ASSUME NEW T \in SUBSET Nat, T # {}
  PROVE  \E m \in T : \A k \in T : m <= k
<1> DEFINE Less == {p \in Nat \X Nat : p[1] < p[2]}
<1>1. OpToRel(<, Nat) = Less
  BY DEF OpToRel
<1>2. PICK m \in T : \A k \in T : ~(<<k, m>> \in Less)
  BY <1>1, NatLessThanWellFounded, WFMin
<1>3. ASSUME NEW k \in T, k < m PROVE <<k, m>> \in Less
  <2>1. <<k, m>> \in Nat \X Nat /\ <<k, m>>[1] = k /\ <<k, m>>[2] = m
    OBVIOUS
  <2> QED
    BY <1>3, <2>1
<1> HIDE DEF Less
<1>4. \A k \in T : m <= k
  <2> SUFFICES ASSUME NEW k \in T PROVE m <= k
    OBVIOUS
  <2>1. ~(k < m)
    BY <1>2, <1>3, Zenon
  <2>2. k \in Nat /\ m \in Nat
    OBVIOUS
  <2> QED
    BY <2>1, <2>2
<1> QED
  BY <1>4

\* The places of a list are finite, as are those up to one of them.
LEMMA PlacesFinite ==
  ASSUME NEW N \in Nat, NEW places \in SUBSET (1..N)
  PROVE  /\ IsFiniteSet(places) /\ Cardinality(places) \in Nat
         /\ \A k \in Nat : /\ IsFiniteSet(places \cap 1..k)
                          /\ Cardinality(places \cap 1..k) \in Nat
<1>1. IsFiniteSet(1..N)
  BY FS_Interval
<1>2. \A P \in SUBSET (1..N) : IsFiniteSet(P) /\ Cardinality(P) \in Nat
  BY <1>1, FS_Subset, FS_CardinalityType
<1>3. \A k \in Nat : places \cap 1..k \in SUBSET (1..N)
  OBVIOUS
<1> QED
  BY <1>2, <1>3

\* Up to the place of the n-th element that is kept, n are kept.
LEMMA PlaceExists ==
  ASSUME NEW N \in Nat, NEW places \in SUBSET (1..N), NEW n \in 1..Cardinality(places)
  PROVE  /\ Place(places, n) \in places
         /\ Cardinality(places \cap 1..Place(places, n)) = n
<1>1. Cardinality(places) \in Nat
  BY PlacesFinite
<1>2. \A k \in Nat : /\ IsFiniteSet(places \cap 1..k)
                     /\ Cardinality(places \cap 1..k) \in Nat
  BY PlacesFinite
<1> DEFINE T == {k \in Nat : Cardinality(places \cap 1..k) >= n}
<1>3. N \in T
  <2>1. places \cap 1..N = places
    OBVIOUS
  <2> QED
    BY <1>1, <2>1
<1>4. PICK m \in T : \A k \in T : m <= k
  BY <1>3, LeastNatural
<1>5. m # 0
  <2>1. places \cap 1..0 = {}
    OBVIOUS
  <2> QED
    BY <2>1, FS_EmptySet
<1>6. m - 1 \in Nat /\ ~(Cardinality(places \cap 1..(m - 1)) >= n)
  BY <1>4, <1>5
<1>7. CASE m \in places
  <2>1. places \cap 1..m = (places \cap 1..(m - 1)) \cup {m}
    BY <1>6, <1>7
  <2>2. Cardinality(places \cap 1..m) = Cardinality(places \cap 1..(m - 1)) + 1
    BY <1>2, <1>6, <2>1, FS_AddElement
  <2>3. Cardinality(places \cap 1..m) = n
    BY <1>2, <1>6, <2>2
  <2> QED
    BY <1>7, <2>3 DEF Place
<1>8. CASE m \notin places
  <2>1. places \cap 1..m = places \cap 1..(m - 1)
    BY <1>6, <1>8
  <2> QED
    BY <1>6, <2>1
<1> QED
  BY <1>7, <1>8

\* What is left is a list, of elements at places that were to be kept.
LEMMA KeptType ==
  ASSUME NEW list, IsList(list), NEW places \in SUBSET DOMAIN list
  PROVE  /\ IsList(Kept(list, places))
         /\ \A n \in DOMAIN Kept(list, places) :
              \E p \in places : Kept(list, places)[n] = list[p]
         /\ places # {} => Len(Kept(list, places)) > 0
<1>1. DOMAIN list = 1..Len(list) /\ Len(list) \in Nat
  BY ListFacts
<1>2. IsFiniteSet(places) /\ Cardinality(places) \in Nat
  BY <1>1, PlacesFinite
<1>3. \A n \in 1..Cardinality(places) : Place(places, n) \in places
  BY <1>1, PlaceExists
<1>4. places # {} => Cardinality(places) > 0
  BY <1>2, FS_EmptySet
<1>5. IsList(Kept(list, places)) /\ Len(Kept(list, places)) = Cardinality(places)
  <2> DEFINE k == Kept(list, places)
  <2>1. DOMAIN k = 1..Cardinality(places) /\ k = [n \in 1..Cardinality(places) |-> k[n]]
    BY DEF Kept
  <2> QED
    BY <1>2, <2>1, FunctionIsList
<1> QED
  BY <1>3, <1>4, <1>5 DEF Kept

\* When every place is kept, the n-th is n.
LEMMA PlaceOfAll ==
  ASSUME NEW N \in Nat, NEW places, places = 1..N, NEW n \in 1..N
  PROVE  Place(places, n) = n
<1>1. Cardinality(places) = N
  BY FS_Interval
<1>2. /\ Place(places, n) \in places
      /\ Cardinality(places \cap 1..Place(places, n)) = n
  BY <1>1, PlaceExists
<1>3. places \cap 1..Place(places, n) = 1..Place(places, n)
  BY <1>2
<1>4. Cardinality(1..Place(places, n)) = Place(places, n)
  BY <1>2, FS_Interval
<1> QED
  BY <1>2, <1>3, <1>4

\* The first elements of a list.
LEMMA SubSeqFromOne ==
  ASSUME NEW list, NEW N \in Nat
  PROVE  SubSeq(list, 1, N) = [k \in 1..N |-> list[k]]
OBVIOUS

---------------------------------------------------------------------------
(* Routes.                                                                 *)

\* A route of the router has a path and leads to one place.
IsRouterRoute(r) ==
  \E path, timeout, auth, prefix, handler, balancing, list :
    /\ r = [path_pattern |-> path, timeout_ms |-> timeout, require_auth |-> auth,
            strip_prefix |-> prefix, handler |-> handler, load_balancing |-> balancing,
            backends |-> list]
    /\ path # ""
    /\ IsList(list)
    /\ handler = "" \/ list = <<>>

\* The fields of such a route.
LEMMA RouterRouteFields ==
  ASSUME NEW r, IsRouterRoute(r)
  PROVE  /\ r = [path_pattern |-> r.path_pattern, timeout_ms |-> r.timeout_ms,
                 require_auth |-> r.require_auth, strip_prefix |-> r.strip_prefix,
                 handler |-> r.handler, load_balancing |-> r.load_balancing,
                 backends |-> r.backends]
         /\ r.path_pattern # ""
         /\ IsList(r.backends)
         /\ r.handler = "" \/ r.backends = <<>>
<1>1. PICK path, timeout, auth, prefix, handler, balancing, list :
        /\ r = [path_pattern |-> path, timeout_ms |-> timeout, require_auth |-> auth,
                strip_prefix |-> prefix, handler |-> handler, load_balancing |-> balancing,
                backends |-> list]
        /\ path # ""
        /\ IsList(list)
        /\ handler = "" \/ list = <<>>
  BY Zenon DEF IsRouterRoute
<1>2. /\ r.path_pattern = path /\ r.timeout_ms = timeout /\ r.require_auth = auth
      /\ r.strip_prefix = prefix /\ r.handler = handler /\ r.load_balancing = balancing
      /\ r.backends = list
  BY <1>1
<1> QED
  BY <1>1, <1>2, Zenon

IsRouter(list) == IsList(list) /\ \A n \in DOMAIN list : IsRouterRoute(list[n])

\* A route as it is posted or listed.
IsPosted(r) == r = Hole \/ (IsRoute(r) /\ HasOneTarget(r))

IsListed(list) == IsRoutes(list) /\ \A n \in DOMAIN list : HasOneTarget(list[n])

\* One target is no two of the three.
LEMMA TargetsApart ==
  ASSUME NEW r
  PROVE  HasOneTarget(r) <=>
           /\ "handler" \in DOMAIN r =>
                "backend" \notin DOMAIN r /\ "backends" \notin DOMAIN r
           /\ "backend" \in DOMAIN r => "backends" \notin DOMAIN r
<1> DEFINE D == DOMAIN r
<1>1. \A s \in Targets : s = "handler" \/ s = "backend" \/ s = "backends"
  BY DEF Targets
<1>2. "handler" \in Targets /\ "backend" \in Targets /\ "backends" \in Targets
  BY DEF Targets
<1>3. /\ "handler" # "backend" /\ "handler" # "backends" /\ "backend" # "backends"
  OBVIOUS
<1>4. HasOneTarget(r) <=> \A s, t \in Targets : s \in D /\ t \in D => s = t
  BY DEF HasOneTarget
<1> HIDE DEF D
<1>5. (\A s, t \in Targets : s \in D /\ t \in D => s = t) <=>
           /\ "handler" \in D => "backend" \notin D /\ "backends" \notin D
           /\ "backend" \in D => "backends" \notin D
  <2>1. ASSUME \A s, t \in Targets : s \in D /\ t \in D => s = t
        PROVE  /\ "handler" \in D => "backend" \notin D /\ "backends" \notin D
               /\ "backend" \in D => "backends" \notin D
    BY <1>2, <1>3, <2>1
  <2>2. ASSUME "handler" \in D => "backend" \notin D /\ "backends" \notin D,
               "backend" \in D => "backends" \notin D,
               NEW s \in Targets, NEW t \in Targets, s \in D, t \in D
        PROVE  s = t
    BY <1>1, <2>2
  <2> QED
    BY <2>1, <2>2
<1> QED
  BY <1>4, <1>5 DEF D

\* A route of the router, made of its fields.
LEMMA RouterRoute ==
  ASSUME NEW path, NEW timeout, NEW auth, NEW prefix, NEW handler, NEW balancing,
         NEW list, NEW r,
         r = [path_pattern |-> path, timeout_ms |-> timeout, require_auth |-> auth,
              strip_prefix |-> prefix, handler |-> handler, load_balancing |-> balancing,
              backends |-> list],
         path # "", IsList(list), handler = "" \/ list = <<>>
  PROVE  IsRouterRoute(r)
BY Zenon DEF IsRouterRoute

\* The router takes a route to one place.
LEMMA RouteOfType ==
  ASSUME NEW r, IsRoute(r), HasOneTarget(r), Get(r, "path", "") # ""
  PROVE  IsRouterRoute(RouteOf(r))
<1>1. "backends" \in DOMAIN r => IsList(r["backends"])
  BY DEF IsRoute
<1>2. "handler" \in DOMAIN r => "backend" \notin DOMAIN r /\ "backends" \notin DOMAIN r
  BY TargetsApart
<1> DEFINE path == Get(r, "path", "")
           timeout == Get(r, "timeout", 5000)
           auth == Get(r, "require_auth", FALSE)
           prefix == Get(r, "strip_prefix", "")
           handler == Get(r, "handler", "")
           balancing == Get(r, "load_balancing", "round_robin")
           list == IF "backend" \in DOMAIN r THEN <<r["backend"]>>
                   ELSE Get(r, "backends", <<>>)
           route == RouteOf(r)
<1>3. IsList(list)
  <2>1. CASE "backend" \in DOMAIN r
    BY <2>1, OneElement
  <2>2. CASE "backend" \notin DOMAIN r /\ "backends" \in DOMAIN r
    BY <1>1, <2>2 DEF Get
  <2>3. CASE "backend" \notin DOMAIN r /\ "backends" \notin DOMAIN r
    BY <2>3, EmptyList DEF Get
  <2> QED
    BY <2>1, <2>2, <2>3
<1>4. handler = "" \/ list = <<>>
  BY <1>2 DEF Get
<1>5. route = [path_pattern |-> path, timeout_ms |-> timeout, require_auth |-> auth,
               strip_prefix |-> prefix, handler |-> handler,
               load_balancing |-> balancing, backends |-> list]
  BY DEF RouteOf
<1>6. path # ""
  OBVIOUS
<1> HIDE DEF path, timeout, auth, prefix, handler, balancing, list, route
<1>7. IsRouterRoute(route)
  BY <1>3, <1>4, <1>5, <1>6, RouterRoute, Zenon
<1> QED
  BY <1>7 DEF route

\* The router tells a route with one place.
LEMMA ExportedType ==
  ASSUME NEW r, IsRouterRoute(r), NEW l, l = r.backends
  PROVE  IsRoute(Exported(r)) /\ HasOneTarget(Exported(r))
<1> DEFINE fields == [path |-> r.path_pattern, timeout |-> r.timeout_ms,
                      require_auth |-> r.require_auth, handler |-> r.handler,
                      strip_prefix |-> r.strip_prefix,
                      load_balancing |-> r.load_balancing]
           given == Delete(fields, {k \in {"handler", "strip_prefix", "load_balancing"} :
                                      fields[k] = ""})
<1>1. /\ {"path", "timeout", "require_auth"} \subseteq DOMAIN given
      /\ "backend" \notin DOMAIN given /\ "backends" \notin DOMAIN given
      /\ "handler" \in DOMAIN given => r.handler # ""
  BY DEF Delete
<1>2. IsList(l) /\ (r.handler = "" \/ l = <<>>)
  BY RouterRouteFields
<1>n. Len(l) \in Nat
  BY <1>2, ListFacts
<1>h. Len(l) # 0 => r.handler = ""
  BY <1>2, EmptyList
<1>3. Exported(r) = CASE Len(l) = 0 -> given
                      [] Len(l) = 1 -> Put(given, "backend", l[1])
                      [] Len(l) > 1 -> Put(given, "backends", l)
  BY DEF Exported
<1> HIDE DEF given
<1>4. CASE Len(l) = 0
  <2>1. Exported(r) = given
    BY <1>3, <1>4
  <2> QED
    BY <1>1, <2>1, TargetsApart DEF IsRoute
<1>5. CASE Len(l) = 1
  <2>1. Exported(r) = Put(given, "backend", l[1])
    BY <1>3, <1>5
  <2>a. Len(l) # 0
    BY <1>5
  <2>2. r.handler = ""
    BY <1>h, <2>a, Zenon
  <2>3. /\ DOMAIN Exported(r) = DOMAIN given \cup {"backend"}
        /\ Exported(r)["backend"] = l[1]
    BY <2>1 DEF Put
  <2> QED
    BY <1>1, <2>2, <2>3, TargetsApart DEF IsRoute
<1>6. CASE Len(l) > 1
  <2>1. Exported(r) = Put(given, "backends", l)
    BY <1>3, <1>6
  <2>a. Len(l) # 0 /\ Len(l) > 0
    BY <1>6, <1>n
  <2>2. r.handler = "" /\ Len(l) > 0
    BY <1>h, <2>a, Zenon
  <2>3. /\ DOMAIN Exported(r) = DOMAIN given \cup {"backends"}
        /\ Exported(r)["backends"] = l
    BY <2>1 DEF Put
  <2> QED
    BY <1>1, <1>2, <2>2, <2>3, TargetsApart DEF IsRoute
<1>7. Len(l) = 0 \/ Len(l) = 1 \/ Len(l) > 1
  BY <1>n
<1> QED
  BY <1>4, <1>5, <1>6, <1>7, Zenon

---------------------------------------------------------------------------
(* Forms.                                                                  *)

\* What the form holds of a route has a handler in mode handler only, and
\* never both a backend and a list of them.
IsFormData(d, mode) ==
  /\ IsRoute(d)
  /\ "handler" \in DOMAIN d => mode = "handler"
  /\ "backend" \in DOMAIN d => "backends" \notin DOMAIN d

IsBoxes(list) == IsList(list) /\ Len(list) > 0

IsEdited(f) == IsForm(f) /\ IsFormData(f.formData, f.mode)

\* A form by its fields.
LEMMA FormFields ==
  ASSUME NEW d, NEW list, NEW mode \in Modes, IsFormData(d, mode), IsBoxes(list)
  PROVE  IsEdited([formData |-> d, backends |-> list, mode |-> mode])
BY DEF IsEdited, IsForm, IsFormData, IsBoxes

\* And what they are.
LEMMA EditedFields ==
  ASSUME NEW f, IsEdited(f)
  PROVE  /\ IsFormData(f.formData, f.mode) /\ IsBoxes(f.backends) /\ f.mode \in Modes
         /\ f = [formData |-> f.formData, backends |-> f.backends, mode |-> f.mode]
BY DEF IsEdited, IsForm, IsBoxes

\* The forms that dialogs open with.
LEMMA OpenedForms ==
  /\ IsEdited(NewForm)
  /\ \A r : IsRoute(r) /\ HasOneTarget(r) => IsEdited(FormOf(r))
<1>1. IsFormData(NewRoute, "single")
  BY DEF NewRoute, IsFormData, IsRoute
<1>2. ASSUME NEW x PROVE IsBoxes(<<x>>)
  <2>1. IsList(<<x>>) /\ Len(<<x>>) = 1
    BY OneElement
  <2> QED
    BY <2>1 DEF IsBoxes
<1>3. IsEdited(NewForm)
  BY <1>1, <1>2, FormFields DEF NewForm, Modes
<1>4. ASSUME NEW r, IsRoute(r), HasOneTarget(r) PROVE IsEdited(FormOf(r))
  <2> DEFINE list == FormOf(r).backends
             mode == FormOf(r).mode
  <2>1. FormOf(r) = [formData |-> r, backends |-> list, mode |-> mode]
    BY DEF FormOf
  <2>2. mode \in Modes /\ ("handler" \in DOMAIN r => mode = "handler")
    BY DEF FormOf, Modes
  <2>3. IsBoxes(list)
    <3>1. CASE "backends" \in DOMAIN r
      BY <1>4, <3>1 DEF FormOf, IsRoute, IsBoxes
    <3>2. CASE "backends" \notin DOMAIN r
      BY <1>2, <3>2 DEF FormOf
    <3> QED
      BY <3>1, <3>2
  <2>4. IsFormData(r, mode)
    BY <1>4, <2>2, TargetsApart DEF IsFormData
  <2> HIDE DEF list, mode
  <2> QED
    BY <2>1, <2>2, <2>3, <2>4, FormFields
<1> QED
  BY <1>3, <1>4

\* A change of a field that is not a target.
LEMMA ChangedData ==
  ASSUME NEW d, NEW mode, IsFormData(d, mode), NEW field, NEW value,
         field \notin Targets \/ (field = "handler" /\ mode = "handler")
  PROVE  IsFormData(Put(d, field, value), mode)
<1>1. field # "backend" /\ field # "backends"
  BY DEF Targets
<1>2. DOMAIN Put(d, field, value) = DOMAIN d \cup {field}
  BY DEF Put
<1>3. "backends" \in DOMAIN d => Put(d, field, value)["backends"] = d["backends"]
  BY <1>1 DEF Put
<1>4. IsRoute(Put(d, field, value))
  BY <1>1, <1>2, <1>3 DEF IsFormData, IsRoute
<1>5. field = "handler" => mode = "handler"
  BY DEF Targets
<1> QED
  BY <1>1, <1>2, <1>4, <1>5 DEF IsFormData

\* Fields taken away that are optional.
LEMMA DeletedData ==
  ASSUME NEW d, IsRoute(d), NEW K,
         K \cap {"path", "timeout", "require_auth"} = {}
  PROVE  /\ DOMAIN Delete(d, K) = DOMAIN d \ K
         /\ IsRoute(Delete(d, K))
<1>1. DOMAIN Delete(d, K) = DOMAIN d \ K
  BY DEF Delete
<1>2. \A k \in DOMAIN d \ K : Delete(d, K)[k] = d[k]
  BY DEF Delete
<1> QED
  BY <1>1, <1>2 DEF IsRoute

\* A form with a field changed.
LEMMA ChangedForm ==
  ASSUME NEW f, IsEdited(f), NEW field, NEW value,
         field \notin Targets \/ (field = "handler" /\ f.mode = "handler")
  PROVE  IsEdited(Change(f, field, value))
<1>1. IsFormData(Put(f.formData, field, value), f.mode)
  BY EditedFields, ChangedData
<1>2. Change(f, field, value) =
        [formData |-> Put(f.formData, field, value), backends |-> f.backends,
         mode |-> f.mode]
  BY EditedFields DEF Change
<1> QED
  BY <1>1, <1>2, EditedFields, FormFields

\* A form with other boxes.
LEMMA OtherBoxes ==
  ASSUME NEW f, IsEdited(f), NEW list, IsBoxes(list)
  PROVE  IsEdited([f EXCEPT !.backends = list])
<1>1. [f EXCEPT !.backends = list] =
        [formData |-> f.formData, backends |-> list, mode |-> f.mode]
  BY EditedFields
<1> QED
  BY <1>1, EditedFields, FormFields

\* A form with another mode.
LEMMA OtherMode ==
  ASSUME NEW f, IsEdited(f), NEW mode \in Modes
  PROVE  IsEdited(ChooseMode(f, mode))
<1> DEFINE d == IF mode = "handler" THEN Put(f.formData, "handler", "health_check")
                ELSE Delete(f.formData, {"handler"})
<1>1. IsFormData(f.formData, f.mode)
  BY EditedFields
<1>2. IsFormData(d, mode)
  <2>1. CASE mode = "handler"
    <3>1. IsFormData(f.formData, mode)
      BY <1>1, <2>1 DEF IsFormData
    <3> QED
      BY <2>1, <3>1, ChangedData
  <2>2. CASE mode # "handler"
    <3>1. DOMAIN d = DOMAIN f.formData \ {"handler"} /\ IsRoute(d)
      BY <1>1, <2>2, DeletedData DEF IsFormData
    <3> HIDE DEF d
    <3> QED
      BY <1>1, <3>1 DEF IsFormData
  <2> QED
    BY <2>1, <2>2
<1>a. ChooseMode(f, mode) = [f EXCEPT !.mode = mode, !.formData = d]
  BY DEF ChooseMode
<1>3. ChooseMode(f, mode) = [formData |-> d, backends |-> f.backends, mode |-> mode]
  <2> DEFINE e == [f EXCEPT !.mode = mode]
  <2>1. e = [formData |-> f.formData, backends |-> f.backends, mode |-> mode]
    BY EditedFields
  <2>2. ChooseMode(f, mode) = [e EXCEPT !.formData = d]
    BY <1>a, EditedFields
  <2> HIDE DEF d, e
  <2> QED
    BY <2>1, <2>2
<1> HIDE DEF d
<1> QED
  BY <1>2, <1>3, EditedFields, FormFields

\* The boxes after one is changed, added or removed.
LEMMA NewBoxes ==
  ASSUME NEW list, IsBoxes(list)
  PROVE  /\ \A i, url : IsBoxes([list EXCEPT ![i] = url])
         /\ IsBoxes(Append(list, ""))
         /\ Len(list) > 1 => \A i : IsBoxes(Kept(list, DOMAIN list \ {i}))
<1>1. IsList(list) /\ Len(list) > 0
  BY DEF IsBoxes
<1>2. Len(list) \in Nat /\ DOMAIN list = 1..Len(list)
  BY <1>1, ListFacts
<1>3. \A i, url : IsBoxes([list EXCEPT ![i] = url])
  BY <1>1, ExceptType DEF IsBoxes
<1>4. IsBoxes(Append(list, ""))
  <2>1. IsList(Append(list, "")) /\ Len(Append(list, "")) = Len(list) + 1
    BY <1>1, AppendType
  <2>2. Len(list) + 1 > 0
    BY <1>2
  <2> QED
    BY <2>1, <2>2, Zenon DEF IsBoxes
<1>5. ASSUME Len(list) > 1, NEW i PROVE IsBoxes(Kept(list, DOMAIN list \ {i}))
  <2>1. 1 \in DOMAIN list /\ 2 \in DOMAIN list
    BY <1>2, <1>5
  <2>2. DOMAIN list \ {i} # {}
    BY <2>1
  <2> QED
    BY <1>1, <2>2, KeptType DEF IsBoxes
<1> QED
  BY <1>3, <1>4, <1>5

\* Whatever the user does to a form.
LEMMA EditsType ==
  ASSUME NEW f, IsEdited(f), NEW g \in RouteEdits(f)
  PROVE  IsEdited(g)
<1>1. /\ "path" \notin Targets /\ "load_balancing" \notin Targets
      /\ "timeout" \notin Targets /\ "require_auth" \notin Targets
      /\ "rewrite" \notin Targets /\ "strip_prefix" \notin Targets
  BY DEF Targets
<1>2. IsBoxes(f.backends) /\ f.mode \in Modes
  BY EditedFields
<1>3. CASE g \in PathInput(f) \cup LoadBalancing(f) \cup TimeoutAndAuth(f)
                \cup RewritePath(f) \cup StripPrefix(f)
  <2>1. PICK field, value : field \notin Targets /\ g = Change(f, field, value)
    BY <1>1, <1>3 DEF PathInput, LoadBalancing, TimeoutAndAuth, RewritePath, StripPrefix
  <2> QED
    BY <2>1, ChangedForm
<1>4. CASE g \in BackendType(f)
  BY <1>4, OtherMode DEF BackendType
<1>5. CASE g \in HandlerFunction(f)
  BY <1>5, ChangedForm DEF HandlerFunction
<1>6. CASE g \in BackendURLs(f)
  <2>1. CASE g \in {UpdateBackend(f, i, url) : i \in DOMAIN f.backends, url \in URLs}
    <3>1. PICK i, url : g = UpdateBackend(f, i, url)
      BY <2>1
    <3>2. g = [f EXCEPT !.backends = [f.backends EXCEPT ![i] = url]]
      BY <3>1, EditedFields DEF UpdateBackend
    <3> QED
      BY <1>2, <3>2, NewBoxes, OtherBoxes
  <2>2. CASE g = AddBackend(f)
    <3>1. g = [f EXCEPT !.backends = Append(f.backends, "")]
      BY <2>2 DEF AddBackend
    <3> QED
      BY <1>2, <3>1, NewBoxes, OtherBoxes
  <2>3. CASE Len(f.backends) > 1
             /\ g \in {RemoveBackend(f, i) : i \in DOMAIN f.backends}
    <3>1. PICK i \in DOMAIN f.backends : g = RemoveBackend(f, i)
      BY <2>3
    <3>2. g = [f EXCEPT !.backends = Kept(f.backends, DOMAIN f.backends \ {i})]
      BY <3>1 DEF RemoveBackend
    <3>3. Len(f.backends) > 1
      BY <2>3
    <3> QED
      BY <1>2, <3>2, <3>3, NewBoxes, OtherBoxes
  <2> QED
    BY <1>6, <2>1, <2>2, <2>3 DEF BackendURLs
<1> QED
  BY <1>3, <1>4, <1>5, <1>6 DEF RouteEdits

\* What a form submits.
LEMMA SubmittedType ==
  ASSUME NEW f, IsEdited(f)
  PROVE  IsRoute(Submitted(f)) /\ HasOneTarget(Submitted(f))
<1> DEFINE d == Put(f.formData, "path", Trim(f.formData.path))
           route == WithTarget(f, d)
           gone == {k \in {"rewrite", "strip_prefix"} : Get(route, k, "") = ""}
           valid == ValidBackends(f)
<1>1. IsFormData(d, f.mode) /\ f.mode \in Modes /\ IsBoxes(f.backends)
  BY EditedFields, ChangedData DEF Targets
<1>2. IsList(valid) /\ (valid # <<>> => Len(valid) > 0)
  <2> DEFINE texts == {i \in DOMAIN f.backends : IsText(f.backends[i])}
  <2>1. IsList(valid) /\ (texts # {} => Len(valid) > 0)
    BY <1>1, KeptType DEF ValidBackends, IsBoxes
  <2>2. texts = {} => Cardinality(texts) = 0
    BY FS_EmptySet
  <2>3. texts = {} => valid = <<>>
    <3>1. ASSUME texts = {} PROVE DOMAIN valid = {}
      BY <2>2, <3>1 DEF ValidBackends, Kept
    <3>2. valid = [n \in 1..Len(valid) |-> valid[n]] /\ DOMAIN valid = 1..Len(valid)
          /\ Len(valid) \in Nat
      BY <2>1, ListFacts
    <3> HIDE DEF valid, texts
    <3> QED
      BY <3>1, <3>2
  <2> HIDE DEF valid, texts
  <2> QED
    BY <2>1, <2>3
<1>3. IsRoute(route) /\ HasOneTarget(route)
  <2> HIDE DEF d, valid
  <2>1. CASE f.mode = "handler"
    <3> DEFINE K == {"backend", "backends", "load_balancing"}
    <3>1. route = Delete(d, K)
      BY <2>1 DEF WithTarget
    <3>2. IsRoute(d)
      BY <1>1 DEF IsFormData
    <3>3. DOMAIN route = DOMAIN d \ K /\ IsRoute(route)
      BY <3>1, <3>2, DeletedData
    <3> QED
      BY <3>3, TargetsApart
  <2>2. CASE f.mode = "multiple" /\ valid = <<>>
    <3>1. route = d
      BY <2>2 DEF WithTarget, valid
    <3> QED
      BY <1>1, <2>2, <3>1, TargetsApart DEF IsFormData
  <2>3. CASE f.mode = "multiple" /\ valid # <<>>
    <3> DEFINE K == {"backend", "handler"}
    <3>1. route = Put(Delete(d, K), "backends", valid)
      BY <2>3 DEF WithTarget, valid
    <3>2. DOMAIN Delete(d, K) = DOMAIN d \ K /\ IsRoute(Delete(d, K))
      BY <1>1, DeletedData DEF IsFormData
    <3>3. DOMAIN route = (DOMAIN d \ K) \cup {"backends"} /\ route["backends"] = valid
      BY <3>1, <3>2 DEF Put
    <3>4. IsRoute(route)
      BY <1>2, <2>3, <3>2, <3>3 DEF IsRoute
    <3> QED
      BY <3>3, <3>4, TargetsApart
  <2>4. CASE f.mode = "single" /\ ~IsText(f.backends[1])
    <3>1. route = d
      BY <2>4 DEF WithTarget
    <3> QED
      BY <1>1, <2>4, <3>1, TargetsApart DEF IsFormData
  <2>5. CASE f.mode = "single" /\ IsText(f.backends[1])
    <3> DEFINE K == {"backends", "handler", "load_balancing"}
    <3>1. route = Put(Delete(d, K), "backend", Trim(f.backends[1]))
      BY <2>5 DEF WithTarget
    <3>2. DOMAIN Delete(d, K) = DOMAIN d \ K /\ IsRoute(Delete(d, K))
      BY <1>1, DeletedData DEF IsFormData
    <3>3. DOMAIN route = (DOMAIN d \ K) \cup {"backend"}
      BY <3>1, <3>2 DEF Put
    <3>4. IsRoute(route)
      BY <3>2, <3>3 DEF IsRoute
    <3> QED
      BY <3>3, <3>4, TargetsApart
  <2> QED
    BY <1>1, <2>1, <2>2, <2>3, <2>4, <2>5 DEF Modes
<1>4. Submitted(f) = Delete(route, gone)
  BY DEF Submitted
<1> HIDE DEF route
<1>5. gone \cap {"path", "timeout", "require_auth"} = {}
  OBVIOUS
<1> HIDE DEF gone
<1>6. IsRoute(Submitted(f)) /\ DOMAIN Submitted(f) = DOMAIN route \ gone
  BY <1>3, <1>4, <1>5, DeletedData
<1> QED
  BY <1>3, <1>6 DEF HasOneTarget

---------------------------------------------------------------------------
(* Lists of routes.                                                        *)

IsPosts(list) == IsList(list) /\ \A n \in DOMAIN list : IsPosted(list[n])

\* A hole leads nowhere.
LEMMA HoleType == IsPosted(Hole) /\ HasOneTarget(Hole)
BY DEF IsPosted, HasOneTarget, Hole, Empty

\* What the router makes of a list.
LEMMA LoadedType ==
  ASSUME NEW list, IsPosts(list)
  PROVE  IsRouter(Loaded(list))
<1>a. \A p \in DOMAIN list : p \in 1..p
  <2>1. Len(list) \in Nat /\ DOMAIN list = 1..Len(list)
    BY ListFacts DEF IsPosts
  <2>2. \A p \in 1..Len(list) : p \in 1..p
    BY <2>1
  <2> QED
    BY <2>1, <2>2
<1> DEFINE read == {n \in DOMAIN list : \A m \in 1..n : ~BreaksOff(list[m])}
           places == {n \in read : Get(list[n], "path", "") # ""}
           kept == Kept(list, places)
           loaded == Loaded(list)
<1>1. IsList(list) /\ DOMAIN list = 1..Len(list) /\ Len(list) \in Nat
  BY ListFacts DEF IsPosts
<1>2. \A p \in places : IsRouterRoute(RouteOf(list[p]))
  <2> SUFFICES ASSUME NEW p \in places PROVE IsRouterRoute(RouteOf(list[p]))
    OBVIOUS
  <2>0. p \in read /\ Get(list[p], "path", "") # ""
    OBVIOUS
  <2>1. p \in DOMAIN list /\ list[p] # Hole
    <3>1. p \in DOMAIN list /\ \A m \in 1..p : ~BreaksOff(list[m])
      BY <2>0
    <3>2. p \in 1..p
      BY <1>a, <3>1
    <3>3. ~BreaksOff(list[p])
      BY <3>1, <3>2
    <3> QED
      BY <3>1, <3>3, Zenon DEF BreaksOff
  <2>2. IsRoute(list[p]) /\ HasOneTarget(list[p])
    BY <2>1 DEF IsPosts, IsPosted
  <2> QED
    BY <2>0, <2>2, RouteOfType
<1>3. places \in SUBSET DOMAIN list
  OBVIOUS
<1>4. loaded = [n \in DOMAIN kept |-> RouteOf(kept[n])]
  BY DEF Loaded
<1> HIDE DEF places, kept, loaded
<1>5. IsList(kept) /\ \A n \in DOMAIN kept : \E p \in places : kept[n] = list[p]
  BY <1>1, <1>3, KeptType DEF kept
<1>6. DOMAIN kept = 1..Len(kept) /\ Len(kept) \in Nat
  BY <1>5, ListFacts
<1>7. DOMAIN loaded = 1..Len(kept) /\ loaded = [n \in 1..Len(kept) |-> loaded[n]]
  BY <1>4, <1>6
<1>8. IsList(loaded)
  BY <1>6, <1>7, FunctionIsList
<1>9. \A n \in DOMAIN loaded : IsRouterRoute(loaded[n])
  BY <1>2, <1>4, <1>5
<1> QED
  BY <1>8, <1>9 DEF IsRouter, loaded

\* What it tells of its routes.
LEMMA JSONType ==
  ASSUME NEW list, IsRouter(list)
  PROVE  IsListed(RoutesJSON(list))
<1> DEFINE json == RoutesJSON(list)
<1>1. Len(list) \in Nat /\ DOMAIN list = 1..Len(list)
  BY ListFacts DEF IsRouter
<1>2. json = [n \in DOMAIN list |-> Exported(list[n])]
  BY DEF RoutesJSON
<1> HIDE DEF json
<1>3. DOMAIN json = 1..Len(list) /\ json = [n \in 1..Len(list) |-> json[n]]
  BY <1>1, <1>2
<1>4. IsList(json)
  BY <1>1, <1>3, FunctionIsList
<1>5. \A n \in DOMAIN json : IsRoute(json[n]) /\ HasOneTarget(json[n])
  BY <1>2, ExportedType DEF IsRouter
<1> QED
  BY <1>4, <1>5 DEF IsListed, IsRoutes, json

\* The lists that a page makes of its own.
LEMMA MadeLists ==
  ASSUME NEW list, IsListed(list)
  PROVE  /\ \A r : IsRoute(r) /\ HasOneTarget(r) => IsPosts(Append(list, r))
         /\ \A r : IsRoute(r) /\ HasOneTarget(r) =>
              \A i \in Nat : IsPosts(Replaced(list, i, r))
         /\ \A i \in Nat : IsPosts(LeftOut(list, i))
<1>1. /\ IsList(list) /\ DOMAIN list = 1..Len(list) /\ Len(list) \in Nat
      /\ \A n \in DOMAIN list : IsPosted(list[n])
  BY ListFacts DEF IsListed, IsRoutes, IsPosted
<1>2. ASSUME NEW r, IsRoute(r), HasOneTarget(r) PROVE IsPosts(Append(list, r))
  <2> DEFINE longer == Append(list, r)
  <2>1. /\ IsList(longer) /\ Len(longer) = Len(list) + 1
        /\ \A n \in 1..Len(list) : longer[n] = list[n]
        /\ longer[Len(list) + 1] = r
    BY <1>1, AppendType
  <2>2. DOMAIN longer = 1..Len(longer)
    BY <2>1, ListFacts
  <2> HIDE DEF longer
  <2>3. \A n \in DOMAIN longer : n \in 1..Len(list) \/ n = Len(list) + 1
    BY <1>1, <2>1, <2>2
  <2>4. IsPosted(r)
    BY <1>2 DEF IsPosted
  <2>5. \A n \in DOMAIN longer : IsPosted(longer[n])
    BY <1>1, <2>1, <2>3, <2>4
  <2> QED
    BY <2>1, <2>5 DEF IsPosts, longer
<1>3. ASSUME NEW r, IsRoute(r), HasOneTarget(r), NEW i \in Nat
      PROVE  IsPosts(Replaced(list, i, r))
  <2> DEFINE N == IF i > Len(list) THEN i ELSE Len(list)
             other == Replaced(list, i, r)
  <2>1. N \in Nat
    BY <1>1
  <2>2. other = [n \in 1..N |-> IF n = i THEN r ELSE IF n \in DOMAIN list THEN list[n]
                                 ELSE Hole]
    BY DEF Replaced
  <2> HIDE DEF N, other
  <2>3. DOMAIN other = 1..N /\ other = [n \in 1..N |-> other[n]]
    BY <2>2
  <2>4. IsList(other)
    BY <2>1, <2>3, FunctionIsList
  <2>5. IsPosted(r)
    BY <1>3 DEF IsPosted
  <2>6. \A n \in DOMAIN other : IsPosted(other[n])
    BY <1>1, <2>2, <2>3, <2>5, HoleType
  <2> QED
    BY <2>4, <2>6 DEF IsPosts, other
<1>4. ASSUME NEW i \in Nat PROVE IsPosts(LeftOut(list, i))
  <2>1. DOMAIN list \ {i} \in SUBSET DOMAIN list
    OBVIOUS
  <2> QED
    BY <1>1, <2>1, KeptType DEF LeftOut, IsPosts
<1> QED
  BY <1>2, <1>3, <1>4

---------------------------------------------------------------------------
(* The inductive invariant.                                                *)

\* What a page shows, and what is on its way to it.
Shown ==
  \A b \in Browsers :
    /\ query[b].loaded => IsListed(query[b].data)
    /\ query[b].phase = "answered" => IsListed(query[b].got)

Posting == \A b \in Browsers, m \in Mutations : IsPosts(saving[b][m].list)

Editing == \A b \in Browsers : IsFormOpen(b) => IsEdited(dialog[b].form)

IInv == TypeOK /\ IsRouter(router) /\ Shown /\ Posting /\ Editing

\* What a page lists.
LEMMA CurrentType ==
  ASSUME IInv, NEW b \in Browsers
  PROVE  IsListed(Current(b))
<1>1. IsListed(<<>>)
  BY EmptyList DEF IsListed, IsRoutes
<1> QED
  BY <1>1 DEF IInv, Shown, Current

\* At first.
LEMMA InitIInv == ASSUME Init PROVE IInv
<1> USE DEF Init
<1>1. IsPosts(FirstRoutes)
  BY FirstRoutesAssumption DEF IsRoutes, IsPosts, IsPosted
<1>2. IsRouter(router)
  BY <1>1, LoadedType
<1>3. \A b \in Browsers :
        IsQuery(query[b]) /\ ~query[b].loaded /\ query[b].phase # "answered"
  BY DEF IsQuery, FirstFetch, FetchPhases
<1>4. IsSave(NoSave) /\ IsPosts(<<>>)
  BY EmptyList DEF IsSave, NoSave, SavePhases, IsPosts
<1>5. IsRoutes(<<>>)
  BY EmptyList DEF IsRoutes
<1>6. Unsorted \in [by: Columns \cup {Undefined}, asc: BOOLEAN]
  BY DEF Unsorted
<1>7. TypeOK
  BY <1>3, <1>4, <1>5, <1>6 DEF TypeOK, Current
<1>8. Shown /\ Posting /\ Editing
  BY <1>3, <1>4 DEF Shown, Posting, Editing, IsFormOpen, NoSave
<1> QED
  BY <1>2, <1>7, <1>8 DEF IInv

---------------------------------------------------------------------------
(* The steps. What a step leaves alone keeps its part of the invariant.    *)

\* A table or a dialog changes.
LEMMA DialogStep ==
  ASSUME IInv, NEW b \in Browsers, NEW d,
         d = Undefined \/ IsDialog(d),
         d # Undefined /\ d.kind \in {"add", "update"} => IsEdited(d.form),
         dialog' = [dialog EXCEPT ![b] = d] \/ (UNCHANGED dialog /\ dialog[b] = d),
         UNCHANGED <<router, posts, query, saving>>,
         table' \in [Browsers -> [by: Columns \cup {Undefined}, asc: BOOLEAN]],
         saves' \in Nat, events' \in Nat
  PROVE  IInv'
<1>1. TypeOK'
  BY DEF IInv, TypeOK, Current
<1>2. Editing'
  BY DEF IInv, TypeOK, Editing, IsFormOpen
<1> QED
  BY <1>1, <1>2 DEF IInv, Shown, Posting

\* A save starts, and the dialog closes.
LEMMA MutateStep ==
  ASSUME IInv, NEW b \in Browsers, NEW m \in Mutations, NEW list, IsPosts(list),
         NEW shown \in SUBSET Nat,
         Mutate(b, m, list, shown),
         dialog' = [dialog EXCEPT ![b] = Undefined],
         UNCHANGED <<router, posts, query, table, events>>
  PROVE  IInv'
<1> DEFINE s == [phase |-> "posting", list |-> list, shown |-> shown]
<1>1. saves' \in Nat /\ saving' = [saving EXCEPT ![b][m] = s]
  BY DEF Mutate, IInv, TypeOK
<1>2. IsSave(s) /\ IsPosts(s.list)
  BY DEF IsSave, IsPosts, IsPosted, SavePhases
<1> HIDE DEF s
<1>3. \A c \in Browsers : DOMAIN saving'[c] = Mutations /\
        \A n \in Mutations : IsSave(saving'[c][n]) /\ IsPosts(saving'[c][n].list)
  BY <1>1, <1>2 DEF IInv, TypeOK, Posting
<1>4. DOMAIN saving' = Browsers
  BY <1>1 DEF IInv, TypeOK
<1>5. TypeOK'
  BY <1>1, <1>3, <1>4 DEF IInv, TypeOK, Current
<1>6. Posting'
  BY <1>3 DEF Posting
<1>7. Editing'
  BY DEF IInv, TypeOK, Editing, IsFormOpen
<1> QED
  BY <1>5, <1>6, <1>7 DEF IInv, Shown

\* A save goes on; the gateway or the query may change with it.
LEMMA SaveStep ==
  ASSUME IInv, NEW b \in Browsers, NEW m \in Mutations, NEW s,
         IsSave(s), IsPosts(s.list),
         saving' = [saving EXCEPT ![b][m] = s],
         IsRouter(router'), posts' \in Nat, events' \in Nat,
         \/ UNCHANGED query
         \/ query' = [query EXCEPT ![b] = Invalidated(@)],
         UNCHANGED <<table, dialog, saves>>
  PROVE  IInv'
<1>1. \A c \in Browsers : DOMAIN saving'[c] = Mutations /\
        \A n \in Mutations : IsSave(saving'[c][n]) /\ IsPosts(saving'[c][n].list)
  BY DEF IInv, TypeOK, Posting
<1>2. DOMAIN saving' = Browsers
  BY DEF IInv, TypeOK
<1>3. \A c \in Browsers :
        /\ IsQuery(query'[c])
        /\ query'[c].loaded = query[c].loaded /\ query'[c].data = query[c].data
        /\ query'[c].phase = "answered" =>
              query[c].phase = "answered" /\ query'[c].got = query[c].got
  <2>1. \A c \in Browsers : IsQuery(query[c])
    BY DEF IInv, TypeOK
  <2>2. ASSUME NEW q, IsQuery(q)
        PROVE  /\ IsQuery(Invalidated(q))
               /\ Invalidated(q).loaded = q.loaded /\ Invalidated(q).data = q.data
               /\ Invalidated(q).phase = "answered" =>
                     q.phase = "answered" /\ Invalidated(q).got = q.got
    BY <2>2 DEF IsQuery, FetchPhases, Invalidated, StartFetch
  <2>3. DOMAIN query = Browsers
    BY DEF IInv, TypeOK
  <2> QED
    BY <2>1, <2>2, <2>3
<1>4. DOMAIN query' = Browsers
  BY DEF IInv, TypeOK
<1>5. \A c \in Browsers : IsRoutes(Current(c)')
  BY <1>3 DEF IInv, TypeOK, Current
<1>6. TypeOK'
  BY <1>1, <1>2, <1>3, <1>4, <1>5 DEF IInv, TypeOK
<1>7. Shown'
  BY <1>3 DEF IInv, Shown
<1>8. Posting' /\ Editing'
  BY <1>1 DEF IInv, Posting, Editing, IsFormOpen
<1> QED
  BY <1>6, <1>7, <1>8 DEF IInv

\* The query changes by itself.
LEMMA QueryStep ==
  ASSUME IInv, NEW b \in Browsers, NEW q, IsQuery(q),
         q.loaded => IsListed(q.data),
         q.phase = "answered" => IsListed(q.got),
         query' = [query EXCEPT ![b] = q], events' \in Nat,
         UNCHANGED <<router, posts, table, dialog, saving, saves>>
  PROVE  IInv'
<1>1. DOMAIN query' = Browsers
  BY DEF IInv, TypeOK
<1>2. \A c \in Browsers :
        /\ IsQuery(query'[c])
        /\ query'[c].loaded => IsListed(query'[c].data)
        /\ query'[c].phase = "answered" => IsListed(query'[c].got)
  BY DEF IInv, TypeOK, Shown
<1>3. IsRoutes(<<>>)
  BY EmptyList DEF IsRoutes
<1>4. \A c \in Browsers : IsRoutes(Current(c)')
  BY <1>2, <1>3 DEF Current, IsListed
<1>5. TypeOK'
  BY <1>1, <1>2, <1>4 DEF IInv, TypeOK
<1>6. Shown'
  BY <1>2 DEF Shown
<1> QED
  BY <1>5, <1>6 DEF IInv, Posting, Editing, IsFormOpen

\* A row in a dialog is a route that the page lists.
LEMMA RowType ==
  ASSUME IInv, NEW b \in Browsers, NEW n \in DOMAIN Current(b),
         NEW order \in SortedOrders(table[b], Current(b))
  PROVE  /\ n \in Nat
         /\ IsRoute(Current(b)[order[n]]) /\ HasOneTarget(Current(b)[order[n]])
<1> DEFINE rows == Current(b)
<1>1. IsListed(rows)
  BY CurrentType
<1>2. n \in Nat
  BY <1>1, ListFacts DEF IsListed, IsRoutes
<1>3. order \in [DOMAIN rows -> DOMAIN rows]
  BY DEF SortedOrders
<1> HIDE DEF rows
<1>4. order[n] \in DOMAIN rows
  BY <1>3 DEF rows
<1> QED
  BY <1>1, <1>2, <1>4 DEF IsListed, IsRoutes, rows

\* The versions that a page knows.
LEMMA VersionType ==
  ASSUME IInv, NEW b \in Browsers
  PROVE  ShownVersion(b) \in SUBSET Nat /\ RowVersion(b) \in SUBSET Nat
BY DEF IInv, TypeOK, IsQuery, ShownVersion, RowVersion

\* Every step of the user.
LEMMA UserStep ==
  ASSUME IInv, NEW b \in Browsers, UserSteps(b)
  PROVE  IInv'
<1>1. DOMAIN dialog = Browsers /\ (dialog[b] = Undefined \/ IsDialog(dialog[b]))
      /\ table \in [Browsers -> [by: Columns \cup {Undefined}, asc: BOOLEAN]]
      /\ saves \in Nat /\ events \in Nat
  BY DEF IInv, TypeOK
<1>2. Event => events' \in Nat
  BY <1>1 DEF Event
<1>3. dialog[b] # Undefined /\ dialog[b].kind \in {"add", "update"} => IsEdited(dialog[b].form)
  BY DEF IInv, Editing, IsFormOpen
<1>4. CASE Sort(b)
  <2>1. \A t \in [by: Columns \cup {Undefined}, asc: BOOLEAN], column \in Columns :
          HandleSort(t, column) \in [by: Columns \cup {Undefined}, asc: BOOLEAN]
    BY DEF HandleSort
  <2>2. table' \in [Browsers -> [by: Columns \cup {Undefined}, asc: BOOLEAN]]
    BY <1>1, <1>4, <2>1 DEF Sort
  <2>3. UNCHANGED dialog /\ dialog[b] = Undefined
    BY <1>4 DEF Sort
  <2> QED
    BY <1>1, <1>2, <1>4, <2>2, <2>3, DialogStep DEF Sort
<1>5. CASE OpenNew(b)
  <2> DEFINE d == [kind |-> "add", index |-> 0, shown |-> Undefined, versions |-> {},
                   form |-> NewForm]
  <2>1. IsEdited(NewForm)
    BY OpenedForms
  <2>2. IsDialog(d)
    BY <2>1 DEF IsDialog, IsEdited, Mutations
  <2>3. dialog' = [dialog EXCEPT ![b] = d]
    BY <1>5 DEF OpenNew
  <2>4. IsEdited(d.form)
    BY <2>1
  <2> HIDE DEF d
  <2> QED
    BY <1>1, <1>2, <1>5, <2>2, <2>3, <2>4, DialogStep DEF OpenNew
<1>6. CASE OpenEdit(b)
  <2>1. PICK n \in DOMAIN Current(b), order \in SortedOrders(table[b], Current(b)) :
          dialog' = [dialog EXCEPT ![b] =
            [kind |-> "update", index |-> n, shown |-> Current(b)[order[n]],
             versions |-> ShownVersion(b), form |-> FormOf(Current(b)[order[n]])]]
    BY <1>6 DEF OpenEdit
  <2> DEFINE form == FormOf(Current(b)[order[n]])
             d == [kind |-> "update", index |-> n, shown |-> Current(b)[order[n]],
                   versions |-> ShownVersion(b), form |-> form]
  <2>2. n \in Nat /\ IsEdited(form)
    BY RowType, OpenedForms
  <2>3. dialog' = [dialog EXCEPT ![b] = d]
    BY <2>1
  <2> HIDE DEF form
  <2>4. IsDialog(d) /\ IsEdited(d.form)
    BY <2>2, VersionType DEF IsDialog, IsEdited, Mutations
  <2> HIDE DEF d
  <2> QED
    BY <1>1, <1>2, <1>6, <2>3, <2>4, DialogStep DEF OpenEdit
<1>7. CASE OpenDelete(b)
  <2>1. PICK n \in DOMAIN Current(b) :
          dialog' = [dialog EXCEPT ![b] =
            [kind |-> "delete", index |-> n, shown |-> Undefined,
             versions |-> ShownVersion(b), form |-> Undefined]]
    BY <1>7 DEF OpenDelete
  <2> DEFINE d == [kind |-> "delete", index |-> n, shown |-> Undefined,
                   versions |-> ShownVersion(b), form |-> Undefined]
  <2>2. n \in Nat
    BY CurrentType, ListFacts DEF IsListed, IsRoutes
  <2>3. dialog' = [dialog EXCEPT ![b] = d]
    BY <2>1
  <2>4. IsDialog(d) /\ d.kind = "delete"
    BY <2>2, VersionType DEF IsDialog, Mutations
  <2> HIDE DEF d
  <2> QED
    BY <1>1, <1>2, <1>7, <2>3, <2>4, DialogStep DEF OpenDelete
<1>8. CASE EditRoute(b)
  <2>1. PICK f \in RouteEdits(dialog[b].form) : dialog' = [dialog EXCEPT ![b].form = f]
    BY <1>8 DEF EditRoute
  <2> DEFINE d == [dialog[b] EXCEPT !.form = f]
  <2>2. dialog' = [dialog EXCEPT ![b] = d]
    BY <1>1, <2>1
  <2>3. IsDialog(dialog[b]) /\ IsEdited(dialog[b].form)
    BY <1>1, <1>3, <1>8 DEF EditRoute, IsFormOpen
  <2>4. IsEdited(f)
    BY <2>3, EditsType
  <2>5. IsDialog(d) /\ IsEdited(d.form)
    BY <2>3, <2>4 DEF IsDialog, IsEdited
  <2> HIDE DEF d
  <2> QED
    BY <1>1, <1>2, <1>8, <2>2, <2>5, DialogStep DEF EditRoute
<1>9. CASE Cancel(b)
  BY <1>1, <1>9, DialogStep DEF Cancel, bounds
<1>10. IsListed(Current(b)) /\ ShownVersion(b) \in SUBSET Nat
       /\ RowVersion(b) \in SUBSET Nat
  BY CurrentType, VersionType
<1>11. CASE SubmitNew(b)
  <2>1. IsEdited(dialog[b].form)
    BY <1>3, <1>11 DEF SubmitNew, IsFormOpen
  <2> DEFINE list == Append(Current(b), Submitted(dialog[b].form))
  <2>2. IsPosts(list)
    BY <1>10, <2>1, SubmittedType, MadeLists
  <2>3. Mutate(b, "add", list, ShownVersion(b)) /\ "add" \in Mutations
    BY <1>11 DEF SubmitNew, Mutations
  <2> HIDE DEF list
  <2> QED
    BY <1>10, <1>11, <2>2, <2>3, MutateStep DEF SubmitNew
<1>12. CASE SubmitEdit(b)
  <2>1. IsEdited(dialog[b].form) /\ dialog[b].index \in Nat
    BY <1>1, <1>3, <1>12 DEF SubmitEdit, IsFormOpen, IsDialog
  <2> DEFINE list == Replaced(Current(b), dialog[b].index, Submitted(dialog[b].form))
  <2>2. IsPosts(list)
    BY <1>10, <2>1, SubmittedType, MadeLists
  <2>3. Mutate(b, "update", list, RowVersion(b)) /\ "update" \in Mutations
    BY <1>12 DEF SubmitEdit, Mutations
  <2> HIDE DEF list
  <2> QED
    BY <1>10, <1>12, <2>2, <2>3, MutateStep DEF SubmitEdit
<1>13. CASE ConfirmDelete(b)
  <2>1. dialog[b].index \in Nat
    BY <1>1, <1>13 DEF ConfirmDelete, IsDialog
  <2> DEFINE list == LeftOut(Current(b), dialog[b].index)
  <2>2. IsPosts(list)
    BY <1>10, <2>1, MadeLists
  <2>3. Mutate(b, "delete", list, RowVersion(b)) /\ "delete" \in Mutations
    BY <1>13 DEF ConfirmDelete, Mutations
  <2> HIDE DEF list
  <2> QED
    BY <1>10, <1>13, <2>2, <2>3, MutateStep DEF ConfirmDelete
<1> QED
  BY <1>4, <1>5, <1>6, <1>7, <1>8, <1>9, <1>11, <1>12, <1>13 DEF UserSteps

\* Every step of a save.
LEMMA SavesStep ==
  ASSUME IInv, NEW b \in Browsers, NEW m \in Mutations, SaveSteps(b, m)
  PROVE  IInv'
<1> DEFINE s == saving[b][m]
<1>1. IsSave(s) /\ IsPosts(s.list) /\ DOMAIN saving = Browsers
      /\ DOMAIN saving[b] = Mutations
      /\ IsRouter(router) /\ posts \in Nat /\ events \in Nat
  BY DEF IInv, TypeOK, Posting
<1>2. IsSave(NoSave) /\ IsPosts(NoSave.list)
  BY EmptyList DEF IsSave, NoSave, SavePhases, IsPosts
<1>3. CASE GatewayLoads(b, m)
  <2> DEFINE t == [s EXCEPT !.phase = "answered"]
  <2>1. saving' = [saving EXCEPT ![b][m] = t] /\ router' = Loaded(s.list)
        /\ posts' = posts + 1
    BY <1>1, <1>3 DEF GatewayLoads
  <2> HIDE DEF s
  <2>2. IsSave(t) /\ t.list = s.list
    BY <1>1 DEF IsSave, SavePhases
  <2>3. IsRouter(router') /\ posts' \in Nat
    BY <1>1, <2>1, LoadedType
  <2> HIDE DEF t
  <2>4. IsPosts(t.list)
    BY <1>1, <2>2
  <2> QED
    BY <1>1, <1>3, <2>1, <2>2, <2>3, <2>4, SaveStep DEF GatewayLoads, bounds
<1>4. CASE SaveFails(b, m)
  <2>1. Event
    BY <1>4 DEF SaveFails
  <2>2. events' \in Nat
    BY <1>1, <2>1 DEF Event
  <2> QED
    BY <1>1, <1>2, <1>4, <2>2, SaveStep DEF SaveFails
<1>5. CASE Saved(b, m)
  BY <1>1, <1>2, <1>5, SaveStep DEF Saved, bounds
<1> QED
  BY <1>3, <1>4, <1>5 DEF SaveSteps

\* Every step of a query.
LEMMA QueriesStep ==
  ASSUME IInv, NEW b \in Browsers, QuerySteps(b)
  PROVE  IInv'
<1> DEFINE q == query[b]
<1>1. IsQuery(q) /\ DOMAIN query = Browsers /\ posts \in Nat /\ events \in Nat
      /\ (q.loaded => IsListed(q.data)) /\ (q.phase = "answered" => IsListed(q.got))
  BY DEF IInv, TypeOK, Shown
<1>2. IsListed(RoutesJSON(router))
  BY JSONType DEF IInv
<1> HIDE DEF q
<1>3. /\ IsQuery(StartFetch(q)) /\ StartFetch(q).phase = "sent"
      /\ StartFetch(q).loaded = q.loaded /\ StartFetch(q).data = q.data
  BY <1>1 DEF IsQuery, FetchPhases, StartFetch
<1>4. ASSUME NEW value
      PROVE  /\ IsQuery(Answered(q, value, posts))
             /\ Answered(q, value, posts).got = value
             /\ Answered(q, value, posts).loaded = q.loaded
             /\ Answered(q, value, posts).data = q.data
  BY <1>1 DEF IsQuery, FetchPhases, Answered
<1>5. /\ IsQuery(Arrived(q)) /\ Arrived(q).phase = "idle" /\ Arrived(q).data = q.got
  BY <1>1 DEF IsQuery, FetchPhases, Arrived
<1>6. /\ IsQuery(Failed(q)) /\ Failed(q).phase = "idle"
      /\ Failed(q).loaded = q.loaded /\ Failed(q).data = q.data
  BY <1>1 DEF IsQuery, FetchPhases, Failed
<1>7. CASE Refetch(b)
  BY <1>1, <1>3, <1>7, QueryStep DEF Refetch, bounds, q
<1>8. CASE FetchAnswered(b)
  <2> DEFINE r == Answered(q, RoutesJSON(router), posts)
  <2>1. /\ IsQuery(r) /\ r.got = RoutesJSON(router)
        /\ r.loaded = q.loaded /\ r.data = q.data
    BY <1>4
  <2>2. query' = [query EXCEPT ![b] = r]
    BY <1>8 DEF FetchAnswered, q
  <2> HIDE DEF r
  <2> QED
    BY <1>1, <1>2, <1>8, <2>1, <2>2, QueryStep DEF FetchAnswered, bounds
<1>9. CASE FetchArrives(b)
  <2>1. q.phase = "answered" /\ query' = [query EXCEPT ![b] = Arrived(q)]
    BY <1>9 DEF FetchArrives, q
  <2> QED
    BY <1>1, <1>5, <1>9, <2>1, QueryStep DEF FetchArrives, bounds
<1>10. CASE FetchFails(b)
  <2>1. Event /\ query' = [query EXCEPT ![b] = Failed(q)]
    BY <1>10 DEF FetchFails, q
  <2>2. events' \in Nat
    BY <1>1, <2>1 DEF Event
  <2> QED
    BY <1>1, <1>6, <1>10, <2>1, <2>2, QueryStep DEF FetchFails
<1> QED
  BY <1>7, <1>8, <1>9, <1>10 DEF QuerySteps

---------------------------------------------------------------------------
\* No step breaks the invariant.
LEMMA Inductive == IInv /\ [Next]_vars => IInv'
<1> SUFFICES ASSUME IInv, [Next]_vars PROVE IInv'
  OBVIOUS
<1>1. ASSUME NEW b \in Browsers, UserSteps(b) PROVE IInv'
  BY <1>1, UserStep
<1>2. ASSUME NEW b \in Browsers, QuerySteps(b) PROVE IInv'
  BY <1>2, QueriesStep
<1>3. ASSUME NEW b \in Browsers, NEW m \in Mutations, SaveSteps(b, m) PROVE IInv'
  BY <1>3, SavesStep
<1>4. CASE UNCHANGED vars
  BY <1>4 DEF vars, bounds, IInv, TypeOK, Shown, Posting, Editing, Current, IsFormOpen
<1> QED
  BY <1>1, <1>2, <1>3, <1>4 DEF Next

\* The types of RoutesPage: however forms are edited, lists are saved and
\* fetched and requests fail, every route that is listed, edited or posted has
\* the fields that the pages rely on (src/ui/src/components/routes/RouteForm.tsx,
\* RouteTable.tsx).
THEOREM TypeCorrect == Spec => []TypeOK
<1>1. IInv => TypeOK
  BY DEF IInv
<1> QED
  BY <1>1, InitIInv, Inductive, PTL DEF Spec

\* A route that is posted or listed leads to one place at most, whatever kinds
\* of backend its form went through (handleSubmit of RouteForm.tsx) and whatever
\* the router made of it (Router::loadRoutes and getRoutesJSON).
THEOREM EveryRouteHasOneTarget == Spec => []OneTarget
<1>1. IInv => OneTarget
  <2> SUFFICES ASSUME IInv PROVE OneTarget
    OBVIOUS
  <2>1. \A b \in Browsers : IsListed(Current(b))
    BY CurrentType
  <2>2. ASSUME NEW r, IsPosted(r) PROVE HasOneTarget(r)
    BY <2>2, HoleType DEF IsPosted
  <2> QED
    BY <2>1, <2>2 DEF IInv, Posting, IsPosts, IsListed, OneTarget
<1> QED
  BY <1>1, InitIInv, Inductive, PTL DEF Spec

---------------------------------------------------------------------------
(* The way of a list through the page and back into the router.            *)

\* The provers take neither the empty text nor a truth value for an argument,
\* so that both have names here.
NoText == ""
Off == FALSE

HasPath(json) == Get(json, "path", NoText) # NoText

\* The router stays on its way through the list.
LEMMA BreaksOffIs ==
  ASSUME NEW json
  PROVE  BreaksOff(json) <=> json = Hole \/ Get(json, "path", NoText) \in NoRegex
BY Zenon DEF BreaksOff, NoText

\* A route that names no empty strategy. Only the configuration file may.
Balanced(r) == "load_balancing" \in DOMAIN r => r["load_balancing"] # NoText

\* The routes of the router that are the same when they are read again.
ComesBack(list) ==
  \A n \in DOMAIN list : /\ list[n].load_balancing # NoText
                         /\ list[n].path_pattern \notin NoRegex

AllBalanced(list) == \A n \in DOMAIN list : Balanced(list[n])

\* The backends that the router reads of a route.
Told(json) == IF "backend" \in DOMAIN json THEN <<json["backend"]>>
              ELSE Get(json, "backends", <<>>)

\* One backend told after the other fields.
LEMMA OneTold ==
  ASSUME NEW d, "backend" \notin DOMAIN d, "backends" \notin DOMAIN d, NEW e,
         NEW x, x = Put(d, "backend", e)
  PROVE  /\ DOMAIN d \subseteq DOMAIN x
         /\ DOMAIN x \subseteq DOMAIN d \cup {"backend", "backends"}
         /\ \A k \in DOMAIN d : x[k] = d[k]
         /\ Told(x) = <<e>>
<1>1. /\ DOMAIN x = DOMAIN d \cup {"backend"} /\ x["backend"] = e
      /\ \A k \in DOMAIN d : x[k] = d[k]
  BY DEF Put
<1>2. Told(x) = <<e>>
  BY <1>1 DEF Told
<1> QED
  BY <1>1, <1>2

\* Several backends told.
LEMMA SeveralTold ==
  ASSUME NEW d, "backend" \notin DOMAIN d, "backends" \notin DOMAIN d, NEW l,
         NEW x, x = Put(d, "backends", l)
  PROVE  /\ DOMAIN d \subseteq DOMAIN x
         /\ DOMAIN x \subseteq DOMAIN d \cup {"backend", "backends"}
         /\ \A k \in DOMAIN d : x[k] = d[k]
         /\ Told(x) = l
<1>1. /\ DOMAIN x = DOMAIN d \cup {"backends"} /\ x["backends"] = l
      /\ \A k \in DOMAIN d : x[k] = d[k]
  BY DEF Put
<1>2. Told(x) = l
  BY <1>1 DEF Told, Get
<1> QED
  BY <1>1, <1>2

\* What is told of a route when the other fields are d.
WithBackends(d, l) == CASE Len(l) = 0 -> d
                        [] Len(l) = 1 -> Put(d, "backend", l[1])
                        [] Len(l) > 1 -> Put(d, "backends", l)

\* Backends told after the other fields are found again.
LEMMA BackendsTold ==
  ASSUME NEW d, "backend" \notin DOMAIN d, "backends" \notin DOMAIN d,
         NEW l, IsList(l), NEW x, x = WithBackends(d, l)
  PROVE  /\ DOMAIN d \subseteq DOMAIN x
         /\ DOMAIN x \subseteq DOMAIN d \cup {"backend", "backends"}
         /\ \A k \in DOMAIN d : x[k] = d[k]
         /\ Told(x) = l
<1>1. Len(l) \in Nat /\ l = [n \in 1..Len(l) |-> l[n]]
  BY ListFacts
<1>2. CASE Len(l) = 0
  <2>1. ~(Len(l) = 1) /\ ~(Len(l) > 1)
    BY <1>2
  <2>2. x = d
    BY <1>2, <2>1, Zenon DEF WithBackends
  <2>3. l = <<>>
    BY <1>1, <1>2
  <2>4. Told(d) = <<>>
    BY DEF Told, Get
  <2> QED
    BY <2>2, <2>3, <2>4, Zenon
<1>3. CASE Len(l) = 1
  <2>1. ~(Len(l) = 0) /\ ~(Len(l) > 1)
    BY <1>3
  <2>2. x = Put(d, "backend", l[1])
    BY <1>3, <2>1, Zenon DEF WithBackends
  <2>3. l = <<l[1]>>
    BY <1>1, <1>3
  <2>4. PICK e : e = l[1]
    OBVIOUS
  <2>5. /\ DOMAIN d \subseteq DOMAIN x
        /\ DOMAIN x \subseteq DOMAIN d \cup {"backend", "backends"}
        /\ \A k \in DOMAIN d : x[k] = d[k]
        /\ Told(x) = <<e>>
    BY <2>2, <2>4, OneTold
  <2>6. l = <<e>>
    BY <2>3, <2>4
  <2> QED
    BY <2>5, <2>6
<1>4. CASE Len(l) > 1
  <2>1. ~(Len(l) = 0) /\ ~(Len(l) = 1)
    BY <1>1, <1>4
  <2>2. x = Put(d, "backends", l)
    BY <1>4, <2>1, Zenon DEF WithBackends
  <2> QED
    BY <2>2, SeveralTold, Zenon
<1>5. Len(l) = 0 \/ Len(l) = 1 \/ Len(l) > 1
  BY <1>1
<1> QED
  BY <1>2, <1>3, <1>4, <1>5, Zenon

\* A route of the router with the fields that are read.
LEMMA RouteOfFields ==
  ASSUME NEW x, NEW path, NEW timeout, NEW auth, NEW prefix, NEW handler,
         NEW balancing, NEW list,
         Get(x, "path", NoText) = path, Get(x, "timeout", 5000) = timeout,
         Get(x, "require_auth", Off) = auth, Get(x, "strip_prefix", NoText) = prefix,
         Get(x, "handler", NoText) = handler,
         Get(x, "load_balancing", "round_robin") = balancing, Told(x) = list
  PROVE  RouteOf(x) = [path_pattern |-> path, timeout_ms |-> timeout,
                       require_auth |-> auth, strip_prefix |-> prefix,
                       handler |-> handler, load_balancing |-> balancing,
                       backends |-> list]
<1> DEFINE gPath == Get(x, "path", NoText)
           gTimeout == Get(x, "timeout", 5000)
           gAuth == Get(x, "require_auth", Off)
           gPrefix == Get(x, "strip_prefix", NoText)
           gHandler == Get(x, "handler", NoText)
           gBalancing == Get(x, "load_balancing", "round_robin")
           gBackends == Told(x)
           route == RouteOf(x)
<1>1. route = [path_pattern |-> gPath, timeout_ms |-> gTimeout, require_auth |-> gAuth,
               strip_prefix |-> gPrefix, handler |-> gHandler,
               load_balancing |-> gBalancing, backends |-> gBackends]
  BY Zenon DEF RouteOf, NoText, Off, Told
<1>2. /\ gPath = path /\ gTimeout = timeout /\ gAuth = auth /\ gPrefix = prefix
      /\ gHandler = handler /\ gBalancing = balancing /\ gBackends = list
  OBVIOUS
<1> HIDE DEF gPath, gTimeout, gAuth, gPrefix, gHandler, gBalancing, gBackends, route
<1>3. route = [path_pattern |-> path, timeout_ms |-> timeout, require_auth |-> auth,
               strip_prefix |-> prefix, handler |-> handler,
               load_balancing |-> balancing, backends |-> list]
  BY <1>1, <1>2
<1> QED
  BY <1>3 DEF route

\* The fields told of a route before its backends.
LEMMA FieldsTold ==
  ASSUME NEW path, NEW timeout, NEW auth, NEW prefix, NEW handler, NEW balancing,
         balancing # NoText, NEW fields,
         fields = [path |-> path, timeout |-> timeout, require_auth |-> auth,
                   handler |-> handler, strip_prefix |-> prefix,
                   load_balancing |-> balancing],
         NEW given,
         given = Delete(fields, {k \in {"handler", "strip_prefix", "load_balancing"} :
                                   fields[k] = NoText})
  PROVE  /\ "path" \in DOMAIN given /\ given["path"] = path
         /\ "timeout" \in DOMAIN given /\ given["timeout"] = timeout
         /\ "require_auth" \in DOMAIN given /\ given["require_auth"] = auth
         /\ "load_balancing" \in DOMAIN given /\ given["load_balancing"] = balancing
         /\ "backend" \notin DOMAIN given /\ "backends" \notin DOMAIN given
         /\ Get(given, "handler", NoText) = handler
         /\ Get(given, "strip_prefix", NoText) = prefix
<1>1. /\ DOMAIN given = {"path", "timeout", "require_auth", "handler", "strip_prefix",
                         "load_balancing"}
                        \ {k \in {"handler", "strip_prefix", "load_balancing"} :
                             fields[k] = NoText}
      /\ \A k \in DOMAIN given : given[k] = fields[k]
  BY DEF Delete
<1>2. /\ fields["path"] = path /\ fields["timeout"] = timeout
      /\ fields["require_auth"] = auth /\ fields["handler"] = handler
      /\ fields["strip_prefix"] = prefix /\ fields["load_balancing"] = balancing
  OBVIOUS
<1>3. /\ "path" \in DOMAIN given /\ "timeout" \in DOMAIN given
      /\ "require_auth" \in DOMAIN given /\ "load_balancing" \in DOMAIN given
      /\ "backend" \notin DOMAIN given /\ "backends" \notin DOMAIN given
      /\ "handler" \in DOMAIN given <=> handler # NoText
      /\ "strip_prefix" \in DOMAIN given <=> prefix # NoText
  BY <1>1, <1>2
<1> QED
  BY <1>1, <1>2, <1>3 DEF Get

\* What the router tells of a route, read back, is the route.
LEMMA RouteOfExported ==
  ASSUME NEW r, IsRouterRoute(r), r.load_balancing # NoText
  PROVE  /\ RouteOf(Exported(r)) = r
         /\ HasPath(Exported(r))
         /\ Get(Exported(r), "path", NoText) = r.path_pattern
         /\ Balanced(Exported(r))
<1>1. PICK path, timeout, auth, prefix, handler, balancing, l :
        /\ r = [path_pattern |-> path, timeout_ms |-> timeout, require_auth |-> auth,
                strip_prefix |-> prefix, handler |-> handler, load_balancing |-> balancing,
                backends |-> l]
        /\ path # NoText
        /\ IsList(l)
        /\ handler = NoText \/ l = <<>>
  BY Zenon DEF IsRouterRoute, NoText
<1>2. /\ r.path_pattern = path /\ r.timeout_ms = timeout /\ r.require_auth = auth
      /\ r.strip_prefix = prefix /\ r.handler = handler /\ r.load_balancing = balancing
      /\ r.backends = l
  BY <1>1
<1>3. balancing # NoText
  BY <1>2
<1>4. PICK fields : fields = [path |-> path, timeout |-> timeout, require_auth |-> auth,
                              handler |-> handler, strip_prefix |-> prefix,
                              load_balancing |-> balancing]
  OBVIOUS
<1>5. PICK given :
        given = Delete(fields, {k \in {"handler", "strip_prefix", "load_balancing"} :
                                  fields[k] = NoText})
  OBVIOUS
<1>6. PICK x : x = Exported(r)
  OBVIOUS
<1>7. /\ "path" \in DOMAIN given /\ given["path"] = path
      /\ "timeout" \in DOMAIN given /\ given["timeout"] = timeout
      /\ "require_auth" \in DOMAIN given /\ given["require_auth"] = auth
      /\ "load_balancing" \in DOMAIN given /\ given["load_balancing"] = balancing
      /\ "backend" \notin DOMAIN given /\ "backends" \notin DOMAIN given
      /\ Get(given, "handler", NoText) = handler
      /\ Get(given, "strip_prefix", NoText) = prefix
  BY <1>3, <1>4, <1>5, FieldsTold
<1>9. x = WithBackends(given, l)
  BY <1>2, <1>4, <1>5, <1>6, Zenon DEF Exported, WithBackends, NoText
<1>11. /\ DOMAIN given \subseteq DOMAIN x
       /\ DOMAIN x \subseteq DOMAIN given \cup {"backend", "backends"}
       /\ \A k \in DOMAIN given : x[k] = given[k]
       /\ Told(x) = l
  BY <1>1, <1>7, <1>9, BackendsTold
<1>12. /\ "path" \in DOMAIN x /\ x["path"] = path
       /\ "timeout" \in DOMAIN x /\ x["timeout"] = timeout
       /\ "require_auth" \in DOMAIN x /\ x["require_auth"] = auth
       /\ "load_balancing" \in DOMAIN x /\ x["load_balancing"] = balancing
       /\ Get(x, "handler", NoText) = Get(given, "handler", NoText)
       /\ Get(x, "strip_prefix", NoText) = Get(given, "strip_prefix", NoText)
  BY <1>7, <1>11 DEF Get
<1>13. /\ Get(x, "path", NoText) = path /\ Get(x, "timeout", 5000) = timeout
       /\ Get(x, "require_auth", Off) = auth
       /\ Get(x, "load_balancing", "round_robin") = balancing
       /\ Get(x, "handler", NoText) = handler /\ Get(x, "strip_prefix", NoText) = prefix
  BY <1>7, <1>12 DEF Get
<1>14. RouteOf(x) = [path_pattern |-> path, timeout_ms |-> timeout,
                     require_auth |-> auth, strip_prefix |-> prefix,
                     handler |-> handler, load_balancing |-> balancing,
                     backends |-> l]
  BY <1>11, <1>13, RouteOfFields
<1>15. Balanced(x)
  BY <1>3, <1>12 DEF Balanced
<1>16. RouteOf(x) = r
  BY <1>1, <1>14
<1>17. HasPath(x)
  BY <1>1, <1>13 DEF HasPath
<1>18. Get(x, "path", NoText) = r.path_pattern
  BY <1>2, <1>13
<1> QED
  BY <1>6, <1>15, <1>16, <1>17, <1>18, Zenon

\* What the router makes of a list that it gets through: the routes that have a
\* path.
LEMMA LoadedIs ==
  ASSUME NEW list, IsList(list), \A n \in DOMAIN list : ~BreaksOff(list[n]),
         NEW places, places = {n \in DOMAIN list : HasPath(list[n])}
  PROVE  Loaded(list) = [k \in 1..Cardinality(places) |-> RouteOf(list[Place(places, k)])]
<1> DEFINE read == {n \in DOMAIN list : \A m \in 1..n : ~BreaksOff(list[m])}
           kept == Kept(list, {n \in read : HasPath(list[n])})
<1>1. DOMAIN list = 1..Len(list) /\ Len(list) \in Nat
  BY ListFacts
<1>3. read = DOMAIN list
  BY <1>1
<1>4. kept = Kept(list, places)
  BY <1>3
<1>5. Loaded(list) = [k \in DOMAIN kept |-> RouteOf(kept[k])]
  BY Zenon DEF Loaded, HasPath, NoText
<1> HIDE DEF kept
<1> QED
  BY <1>4, <1>5 DEF Kept

\* What it makes of one that it breaks off at place i: the routes before it.
LEMMA LoadedUpTo ==
  ASSUME NEW list, IsList(list), NEW i \in DOMAIN list, BreaksOff(list[i]),
         \A n \in DOMAIN list : n < i => ~BreaksOff(list[n]) /\ HasPath(list[n])
  PROVE  Loaded(list) = [k \in 1..(i - 1) |-> RouteOf(list[k])]
<1> DEFINE read == {n \in DOMAIN list : \A m \in 1..n : ~BreaksOff(list[m])}
           places == {n \in read : HasPath(list[n])}
           kept == Kept(list, places)
<1>1. DOMAIN list = 1..Len(list) /\ Len(list) \in Nat
  BY ListFacts
<1>2. i \in Nat /\ i - 1 \in Nat
  BY <1>1
<1>3. read = 1..(i - 1)
  <2>1. \A n \in DOMAIN list : n >= i => i \in 1..n
    BY <1>1
  <2>2. \A n \in read : n \in DOMAIN list /\ ~(n >= i)
    BY <2>1
  <2>3. read \subseteq 1..(i - 1)
    BY <1>1, <1>2, <2>2
  <2>4. \A n \in 1..(i - 1) : n \in DOMAIN list /\ \A m \in 1..n : m \in DOMAIN list /\ m < i
    BY <1>1, <1>2
  <2>5. 1..(i - 1) \subseteq read
    BY <2>4
  <2> QED
    BY <2>3, <2>5
<1>4. \A n \in read : n \in DOMAIN list /\ n < i
  BY <1>1, <1>2, <1>3
<1> HIDE DEF read
<1>5. places = 1..(i - 1)
  BY <1>3, <1>4
<1>6. Loaded(list) = [k \in DOMAIN kept |-> RouteOf(kept[k])]
  BY Zenon DEF Loaded, HasPath, NoText, read
<1> HIDE DEF places
<1>7. Cardinality(places) = i - 1 /\ \A k \in 1..(i - 1) : Place(places, k) = k
  <2>1. Cardinality(places) = i - 1
    BY <1>2, <1>5, FS_Interval
  <2>2. \A k \in 1..(i - 1) : Place(places, k) = k
    BY <1>2, <1>5, PlaceOfAll
  <2> QED
    BY <2>1, <2>2
<1>8. kept = [k \in 1..(i - 1) |-> list[k]]
  BY <1>7 DEF Kept
<1> QED
  BY <1>6, <1>8

\* What the page gets of the router's routes and what becomes of each.
LEMMA JSONFacts ==
  ASSUME NEW list, IsRouter(list), ComesBack(list)
  PROVE  /\ Len(list) \in Nat /\ DOMAIN list = 1..Len(list)
         /\ list = [n \in 1..Len(list) |-> list[n]]
         /\ IsList(RoutesJSON(list)) /\ Len(RoutesJSON(list)) = Len(list)
         /\ DOMAIN RoutesJSON(list) = 1..Len(list)
         /\ \A n \in 1..Len(list) :
              /\ RouteOf(RoutesJSON(list)[n]) = list[n]
              /\ HasPath(RoutesJSON(list)[n])
              /\ IsRoute(RoutesJSON(list)[n])
              /\ ~BreaksOff(RoutesJSON(list)[n])
<1> DEFINE N == Len(list)
           json == RoutesJSON(list)
<1>1. N \in Nat /\ DOMAIN list = 1..N /\ list = [n \in 1..N |-> list[n]]
  BY ListFacts DEF IsRouter
<1>2. IsListed(json)
  BY JSONType
<1>3. \A n \in 1..N : /\ RouteOf(json[n]) = list[n] /\ HasPath(json[n])
                      /\ IsRoute(json[n]) /\ ~BreaksOff(json[n])
  <2>1. \A n \in 1..N : /\ json[n] = Exported(list[n]) /\ IsRouterRoute(list[n])
                        /\ list[n].load_balancing # NoText
                        /\ list[n].path_pattern \notin NoRegex
    BY <1>1 DEF RoutesJSON, IsRouter, ComesBack
  <2>2. \A n \in 1..N : IsRoute(Exported(list[n]))
    BY <2>1, ExportedType
  <2>3. \A n \in 1..N : /\ RouteOf(json[n]) = list[n] /\ HasPath(json[n])
                        /\ Get(json[n], "path", NoText) \notin NoRegex
    BY <2>1, RouteOfExported
  <2>4. \A r : IsRoute(r) => r # Hole
    BY DEF IsRoute, Hole, Empty
  <2>5. \A n \in 1..N : IsRoute(json[n]) /\ json[n] # Hole
    BY <2>1, <2>2, <2>4
  <2>6. \A n \in 1..N : ~BreaksOff(json[n])
    BY <2>3, <2>5, BreaksOffIs
  <2> QED
    BY <2>3, <2>5, <2>6
<1>4. IsList(json) /\ DOMAIN json = 1..N
  BY <1>1, <1>2 DEF IsListed, IsRoutes, RoutesJSON
<1> HIDE DEF json
<1>5. Len(json) = N
  BY <1>1, <1>4, ListFacts
<1> QED
  BY <1>1, <1>3, <1>4, <1>5 DEF json

\* A route that was added comes behind the others, if it has a path.
LEMMA LoadedAppend ==
  ASSUME NEW list, IsRouter(list), ComesBack(list), NEW r, IsRoute(r)
  PROVE  /\ Len(Loaded(Append(RoutesJSON(list), r))) <= Len(list) + 1
         /\ SubSeq(Loaded(Append(RoutesJSON(list), r)), 1, Len(list)) = list
<1> DEFINE N == Len(list)
           json == RoutesJSON(list)
           longer == Append(json, r)
           places == {n \in DOMAIN longer : HasPath(longer[n])}
           loaded == Loaded(longer)
<1>1. N \in Nat /\ DOMAIN list = 1..N /\ list = [n \in 1..N |-> list[n]]
  BY JSONFacts
<1>3. \A n \in 1..N : /\ RouteOf(json[n]) = list[n] /\ HasPath(json[n])
                      /\ ~BreaksOff(json[n])
  BY JSONFacts
<1>4. IsList(json) /\ Len(json) = N
  BY JSONFacts
<1> HIDE DEF N, json
<1>5. /\ IsList(longer) /\ DOMAIN longer = 1..(N + 1)
      /\ \A n \in 1..N : longer[n] = json[n]
      /\ longer[N + 1] = r
  BY <1>1, <1>4, AppendType, ListFacts
<1> HIDE DEF longer
<1>6. \A n \in DOMAIN longer : n \in 1..N \/ n = N + 1
  BY <1>1, <1>5
<1>7. ASSUME BreaksOff(r)
      PROVE  loaded = [k \in 1..N |-> RouteOf(longer[k])]
  <2>1. N + 1 \in DOMAIN longer /\ BreaksOff(longer[N + 1])
    BY <1>1, <1>5, <1>7
  <2>2. \A n \in DOMAIN longer : n < N + 1 => ~BreaksOff(longer[n]) /\ HasPath(longer[n])
    BY <1>1, <1>3, <1>5, <1>6
  <2>3. loaded = [k \in 1..((N + 1) - 1) |-> RouteOf(longer[k])]
    BY <1>5, <2>1, <2>2, LoadedUpTo
  <2> HIDE DEF loaded
  <2>4. (N + 1) - 1 = N
    BY <1>1
  <2> QED
    BY <2>3, <2>4
<1>8. ASSUME ~BreaksOff(r)
      PROVE  \E M \in {N, N + 1} : loaded = [k \in 1..M |-> RouteOf(longer[k])]
  <2>1. \A n \in DOMAIN longer : ~BreaksOff(longer[n])
    BY <1>3, <1>5, <1>6, <1>8
  <2>2. loaded = [k \in 1..Cardinality(places) |-> RouteOf(longer[Place(places, k)])]
    BY <1>5, <2>1, LoadedIs
  <2>3. \E M \in {N, N + 1} : places = 1..M
    <3>1. \A n \in 1..N : n \in places
      BY <1>1, <1>3, <1>5
    <3>2. places \subseteq 1..(N + 1)
      BY <1>5
    <3>3. CASE N + 1 \in places
      BY <1>1, <3>1, <3>2, <3>3
    <3>4. CASE N + 1 \notin places
      BY <1>1, <3>1, <3>2, <3>4
    <3> QED
      BY <3>3, <3>4
  <2> HIDE DEF places, loaded
  <2>4. PICK M \in {N, N + 1} : places = 1..M
    BY <2>3
  <2>5. M \in Nat /\ Cardinality(places) = M
    BY <1>1, <2>4, FS_Interval
  <2>6. \A k \in 1..M : Place(places, k) = k
    BY <2>4, <2>5, PlaceOfAll
  <2>7. loaded = [k \in 1..M |-> RouteOf(longer[k])]
    BY <2>2, <2>5, <2>6
  <2> QED
    BY <2>7
<1> HIDE DEF places, loaded
<1>9. PICK M \in {N, N + 1} : loaded = [k \in 1..M |-> RouteOf(longer[k])]
  BY <1>7, <1>8
<1>10. M \in Nat
  BY <1>1, <1>9
<1>13. IsList(loaded) /\ Len(loaded) = M
  <2>1. DOMAIN loaded = 1..M /\ loaded = [k \in 1..M |-> loaded[k]]
    BY <1>9
  <2> QED
    BY <1>10, <2>1, FunctionIsList
<1>14. \A k \in 1..N : k \in 1..M /\ loaded[k] = list[k]
  <2>1. \A k \in 1..N : k \in 1..M
    BY <1>1, <1>9
  <2> QED
    BY <1>3, <1>5, <1>9, <2>1
<1>15. SubSeq(loaded, 1, N) = [k \in 1..N |-> list[k]]
  <2>1. loaded \in Seq({loaded[k] : k \in DOMAIN loaded})
    BY <1>13 DEF IsList
  <2>2. SubSeq(loaded, 1, N) = [k \in 1..N |-> loaded[k]]
    BY <1>1, <2>1, SubSeqFromOne
  <2> QED
    BY <1>14, <2>2
<1>16. Len(loaded) <= N + 1
  BY <1>1, <1>9, <1>13
<1> QED
  BY <1>1, <1>15, <1>16 DEF N, json, longer, loaded

\* When the row at one place is another one, the others stay as they are.
LEMMA LoadedReplaced ==
  ASSUME NEW list, IsRouter(list), ComesBack(list), NEW r, ~BreaksOff(r),
         NEW i \in DOMAIN list
  PROVE  SameBut(list, Loaded(Replaced(RoutesJSON(list), i, r)), i)
<1> DEFINE N == Len(list)
           json == RoutesJSON(list)
           other == Replaced(json, i, r)
           places == {n \in DOMAIN other : HasPath(other[n])}
           loaded == Loaded(other)
<1>1. N \in Nat /\ DOMAIN list = 1..N /\ list = [n \in 1..N |-> list[n]] /\ i \in 1..N
  BY JSONFacts
<1>2. \A n \in 1..N : /\ RouteOf(json[n]) = list[n] /\ HasPath(json[n])
                      /\ ~BreaksOff(json[n])
  BY JSONFacts
<1>3. Len(json) = N /\ DOMAIN json = 1..N
  BY JSONFacts
<1> HIDE DEF N, json
<1>4. other = [n \in 1..N |-> IF n = i THEN r ELSE json[n]]
  BY <1>1, <1>3 DEF Replaced
<1> HIDE DEF other
<1>5. /\ DOMAIN other = 1..N /\ other = [n \in 1..N |-> other[n]]
      /\ \A n \in 1..N : /\ ~BreaksOff(other[n])
                         /\ n # i => RouteOf(other[n]) = list[n] /\ n \in places
  BY <1>2, <1>4
<1>6. IsList(other) /\ \A n \in DOMAIN other : ~BreaksOff(other[n])
  BY <1>1, <1>5, FunctionIsList
<1>7. loaded = [k \in 1..Cardinality(places) |-> RouteOf(other[Place(places, k)])]
  BY <1>6, LoadedIs
<1>8. places \subseteq 1..N
  BY <1>5
<1> HIDE DEF places, loaded
<1>9. CASE i \in places
  <2>1. places = 1..N
    BY <1>5, <1>8, <1>9
  <2>2. Cardinality(places) = N /\ \A k \in 1..N : Place(places, k) = k
    <3>1. Cardinality(places) = N
      BY <1>1, <2>1, FS_Interval
    <3>2. \A k \in 1..N : Place(places, k) = k
      BY <1>1, <2>1, PlaceOfAll
    <3> QED
      BY <3>1, <3>2
  <2>3. loaded = [k \in 1..N |-> RouteOf(other[k])]
    BY <1>7, <2>2
  <2>4. Len(loaded) = N
    <3>1. DOMAIN loaded = 1..N /\ loaded = [k \in 1..N |-> loaded[k]]
      BY <2>3
    <3> QED
      BY <1>1, <3>1, FunctionIsList
  <2>5. \A k \in DOMAIN list : k # i => loaded[k] = list[k]
    BY <1>1, <1>5, <2>3
  <2> QED
    BY <2>4, <2>5 DEF SameBut, N, loaded, other, json
<1>10. CASE i \notin places
  <2>1. places = DOMAIN list \ {i}
    BY <1>1, <1>5, <1>8, <1>10
  <2>2. \A k \in 1..Cardinality(places) : RouteOf(other[Place(places, k)]) = list[Place(places, k)]
    <3>1. \A k \in 1..Cardinality(places) : Place(places, k) \in places
      BY <1>1, <1>8, PlaceExists
    <3> QED
      BY <1>1, <1>5, <2>1, <3>1
  <2>3. loaded = Kept(list, places)
    BY <1>7, <2>2 DEF Kept
  <2> QED
    BY <2>1, <2>3 DEF SameBut, LeftOut, loaded, other, json
<1> QED
  BY <1>9, <1>10

\* When it is one whose path is no regular expression, the router has the rows
\* before it.
LEMMA LoadedBroken ==
  ASSUME NEW list, IsRouter(list), ComesBack(list), NEW r, BreaksOff(r),
         NEW i \in DOMAIN list
  PROVE  Loaded(Replaced(RoutesJSON(list), i, r)) = SubSeq(list, 1, i - 1)
<1> DEFINE N == Len(list)
           json == RoutesJSON(list)
           other == Replaced(json, i, r)
<1>1. N \in Nat /\ DOMAIN list = 1..N /\ i \in 1..N /\ i - 1 \in Nat
  BY JSONFacts
<1>2. \A n \in 1..N : /\ RouteOf(json[n]) = list[n] /\ HasPath(json[n])
                      /\ ~BreaksOff(json[n])
  BY JSONFacts
<1>3. Len(json) = N /\ DOMAIN json = 1..N
  BY JSONFacts
<1> HIDE DEF N, json
<1>4. other = [n \in 1..N |-> IF n = i THEN r ELSE json[n]]
  BY <1>1, <1>3 DEF Replaced
<1> HIDE DEF other
<1>5. /\ DOMAIN other = 1..N /\ other = [n \in 1..N |-> other[n]]
      /\ BreaksOff(other[i])
      /\ \A n \in 1..N : n # i => /\ RouteOf(other[n]) = list[n]
                                 /\ ~BreaksOff(other[n]) /\ HasPath(other[n])
  BY <1>1, <1>2, <1>4
<1>6. IsList(other)
  BY <1>1, <1>5, FunctionIsList
<1>7. \A n \in DOMAIN other : n < i => ~BreaksOff(other[n]) /\ HasPath(other[n])
  BY <1>1, <1>5
<1>8. Loaded(other) = [k \in 1..(i - 1) |-> RouteOf(other[k])]
  BY <1>1, <1>5, <1>6, <1>7, LoadedUpTo
<1>9. \A k \in 1..(i - 1) : RouteOf(other[k]) = list[k]
  BY <1>1, <1>5
<1>10. Loaded(other) = SubSeq(list, 1, i - 1)
  BY <1>1, <1>8, <1>9, SubSeqFromOne
<1> QED
  BY <1>10 DEF other, json

\* When a row is left out, the router has the others.
LEMMA LoadedLeftOut ==
  ASSUME NEW list, IsRouter(list), ComesBack(list), NEW i \in DOMAIN list
  PROVE  Loaded(LeftOut(RoutesJSON(list), i)) = LeftOut(list, i)
<1> DEFINE N == Len(list)
           json == RoutesJSON(list)
           rows == DOMAIN list \ {i}
           left == Kept(json, rows)
           places == {n \in DOMAIN left : HasPath(left[n])}
           M == Cardinality(rows)
<1>1. N \in Nat /\ DOMAIN list = 1..N /\ IsList(json) /\ DOMAIN json = 1..N
  BY JSONFacts
<1>2. \A n \in 1..N : /\ RouteOf(json[n]) = list[n] /\ HasPath(json[n])
                      /\ ~BreaksOff(json[n])
  BY JSONFacts
<1>3. LeftOut(json, i) = left /\ LeftOut(list, i) = Kept(list, rows)
  BY <1>1 DEF LeftOut
<1> HIDE DEF N, json
<1>4. rows \in SUBSET (1..N) /\ rows \in SUBSET DOMAIN json
  BY <1>1
<1>5. left = [k \in 1..M |-> json[Place(rows, k)]]
  BY DEF Kept
<1> HIDE DEF rows, left
<1>6. IsList(left)
  BY <1>1, <1>4, KeptType DEF left
<1>7. M \in Nat
  BY <1>1, <1>4, PlacesFinite
<1>8. \A k \in 1..M : Place(rows, k) \in 1..N
  BY <1>1, <1>4, PlaceExists
<1>9. \A k \in DOMAIN left : ~BreaksOff(left[k]) /\ k \in places
                             /\ RouteOf(left[k]) = list[Place(rows, k)]
  BY <1>2, <1>5, <1>8
<1>10. places = 1..M
  BY <1>5, <1>9
<1>11. Loaded(left) = [k \in 1..Cardinality(places) |-> RouteOf(left[Place(places, k)])]
  BY <1>6, <1>9, LoadedIs
<1> HIDE DEF places, M
<1>12. Cardinality(places) = M /\ \A k \in 1..M : Place(places, k) = k
  BY <1>7, <1>10, FS_Interval, PlaceOfAll
<1>13. Loaded(left) = [k \in 1..M |-> list[Place(rows, k)]]
  BY <1>5, <1>9, <1>11, <1>12
<1> QED
  BY <1>3, <1>13 DEF Kept, M, json, left

---------------------------------------------------------------------------
(* No page brings an empty strategy.                                       *)

\* Fields put into a route, and taken away.
LEMMA BalancedFields ==
  ASSUME NEW d, Balanced(d)
  PROVE  /\ \A field, value : field # "load_balancing" => Balanced(Put(d, field, value))
         /\ \A value \in Strategies : Balanced(Put(d, "load_balancing", value))
         /\ \A K : Balanced(Delete(d, K))
<1>1. \A value \in Strategies : value # NoText
  BY Zenon DEF Strategies, NoText
<1>2. ASSUME NEW field, NEW value, field # "load_balancing" PROVE Balanced(Put(d, field, value))
  BY <1>2 DEF Balanced, Put
<1>3. ASSUME NEW value \in Strategies PROVE Balanced(Put(d, "load_balancing", value))
  BY <1>1 DEF Balanced, Put
<1>4. ASSUME NEW K PROVE Balanced(Delete(d, K))
  BY DEF Balanced, Delete
<1> QED
  BY <1>2, <1>3, <1>4

\* The forms that dialogs open with.
LEMMA OpenedBalanced ==
  /\ Balanced(NewForm.formData)
  /\ \A r : Balanced(r) => Balanced(FormOf(r).formData)
BY DEF Balanced, NewForm, NewRoute, FormOf

\* Whatever the user does to a form.
LEMMA EditsBalanced ==
  ASSUME NEW f, IsEdited(f), Balanced(f.formData), NEW g \in RouteEdits(f)
  PROVE  Balanced(g.formData)
<1>1. f = [formData |-> f.formData, backends |-> f.backends, mode |-> f.mode]
  BY EditedFields
<1>2. ASSUME NEW field, NEW value
      PROVE  Change(f, field, value).formData = Put(f.formData, field, value)
  BY <1>1 DEF Change
<1>3. CASE g \in PathInput(f) \cup HandlerFunction(f) \cup TimeoutAndAuth(f)
                \cup RewritePath(f) \cup StripPrefix(f)
  <2>1. PICK field, value : field # "load_balancing" /\ g = Change(f, field, value)
    BY <1>3 DEF PathInput, HandlerFunction, TimeoutAndAuth, RewritePath, StripPrefix
  <2> QED
    BY <1>2, <2>1, BalancedFields
<1>4. CASE g \in LoadBalancing(f)
  <2>1. PICK value \in Strategies : g = Change(f, "load_balancing", value)
    BY <1>4 DEF LoadBalancing
  <2> QED
    BY <1>2, <2>1, BalancedFields
<1>5. CASE g \in BackendType(f)
  <2>1. PICK mode \in Modes : g = ChooseMode(f, mode)
    BY <1>5 DEF BackendType
  <2> DEFINE d == IF mode = "handler" THEN Put(f.formData, "handler", "health_check")
                  ELSE Delete(f.formData, {"handler"})
  <2>2. g.formData = d
    BY <1>1, <2>1 DEF ChooseMode
  <2>3. Balanced(d)
    BY BalancedFields
  <2> QED
    BY <2>2, <2>3
<1>6. CASE g \in BackendURLs(f)
  <2> DEFINE WithBoxes(list) == [f EXCEPT !.backends = list]
  <2>1. \A list : WithBoxes(list).formData = f.formData
    BY <1>1
  <2>2. CASE g \in {UpdateBackend(f, i, url) : i \in DOMAIN f.backends, url \in URLs}
    <3>1. PICK i, url : g = UpdateBackend(f, i, url)
      BY <2>2
    <3>2. g = WithBoxes([f.backends EXCEPT ![i] = url])
      BY <3>1, EditedFields DEF UpdateBackend
    <3> QED
      BY <2>1, <3>2
  <2>3. CASE g = AddBackend(f)
    <3>1. g = WithBoxes(Append(f.backends, ""))
      BY <2>3, Zenon DEF AddBackend
    <3> QED
      BY <2>1, <3>1, Zenon
  <2>4. CASE g \in {RemoveBackend(f, i) : i \in DOMAIN f.backends}
    <3>1. PICK i \in DOMAIN f.backends : g = RemoveBackend(f, i)
      BY <2>4
    <3>2. g = WithBoxes(Kept(f.backends, DOMAIN f.backends \ {i}))
      BY <3>1 DEF RemoveBackend
    <3> QED
      BY <2>1, <3>2
  <2>5. \/ g \in {UpdateBackend(f, i, url) : i \in DOMAIN f.backends, url \in URLs}
        \/ g = AddBackend(f)
        \/ g \in {RemoveBackend(f, i) : i \in DOMAIN f.backends}
    BY <1>6 DEF BackendURLs
  <2> QED
    BY <2>2, <2>3, <2>4, <2>5
<1> QED
  BY <1>3, <1>4, <1>5, <1>6 DEF RouteEdits

\* What a form submits.
LEMMA SubmittedBalanced ==
  ASSUME NEW f, IsEdited(f), Balanced(f.formData)
  PROVE  Balanced(Submitted(f))
<1> DEFINE d == Put(f.formData, "path", Trim(f.formData.path))
           route == WithTarget(f, d)
<1>1. Balanced(d)
  BY BalancedFields
<1>2. f.mode \in Modes
  BY EditedFields
<1> HIDE DEF d
<1>3. Balanced(route)
  <2>1. \A K : Balanced(Delete(d, K))
    BY <1>1, BalancedFields
  <2>2. \A K, v : Balanced(Put(Delete(d, K), "backend", v))
                  /\ Balanced(Put(Delete(d, K), "backends", v))
    BY <2>1, BalancedFields
  <2> QED
    BY <1>1, <1>2, <2>1, <2>2 DEF WithTarget, Modes
<1> HIDE DEF route
<1>4. \A K : Balanced(Delete(route, K))
  BY <1>3, BalancedFields
<1> QED
  BY <1>4 DEF Submitted, route, d

\* What the router makes of a list.
LEMMA LoadedComesBack ==
  ASSUME NEW list, IsPosts(list), AllBalanced(list)
  PROVE  ComesBack(Loaded(list))
<1> DEFINE read == {n \in DOMAIN list : \A m \in 1..n : ~BreaksOff(list[m])}
           places == {n \in read : Get(list[n], "path", "") # ""}
           kept == Kept(list, places)
<1>1. Loaded(list) = [n \in DOMAIN kept |-> RouteOf(kept[n])]
  BY Zenon DEF Loaded
<1>2. places \in SUBSET DOMAIN list /\ IsList(list)
  BY DEF IsPosts
<1>b. \A p \in places : ~BreaksOff(list[p])
  <2>1. \A p \in places : p \in DOMAIN list /\ \A m \in 1..p : ~BreaksOff(list[m])
    OBVIOUS
  <2>2. DOMAIN list = 1..Len(list) /\ Len(list) \in Nat
    BY <1>2, ListFacts
  <2>3. \A p \in 1..Len(list) : p \in 1..p
    BY <2>2
  <2> QED
    BY <2>1, <2>2, <2>3
<1> HIDE DEF places
<1>3. \A n \in DOMAIN kept : Balanced(kept[n]) /\ Get(kept[n], "path", NoText) \notin NoRegex
  <2>1. \A n \in DOMAIN kept : \E p \in places : kept[n] = list[p]
    BY <1>2, KeptType
  <2>2. \A p \in places : Get(list[p], "path", NoText) \notin NoRegex
    BY <1>b, BreaksOffIs
  <2> QED
    BY <1>2, <2>1, <2>2 DEF AllBalanced
<1> HIDE DEF kept
<1>4. ASSUME NEW r, Balanced(r)
      PROVE  /\ RouteOf(r).load_balancing # NoText
             /\ RouteOf(r).path_pattern = Get(r, "path", NoText)
  <2>1. "round_robin" # NoText
    BY Zenon DEF NoText
  <2>2. RouteOf(r) = [path_pattern |-> Get(r, "path", NoText),
                      timeout_ms |-> Get(r, "timeout", 5000),
                      require_auth |-> Get(r, "require_auth", Off),
                      strip_prefix |-> Get(r, "strip_prefix", NoText),
                      handler |-> Get(r, "handler", NoText),
                      load_balancing |-> Get(r, "load_balancing", "round_robin"),
                      backends |-> Told(r)]
    BY Zenon DEF RouteOf, NoText, Off, Told
  <2>3. /\ RouteOf(r).load_balancing = Get(r, "load_balancing", "round_robin")
        /\ RouteOf(r).path_pattern = Get(r, "path", NoText)
    BY <2>2
  <2> QED
    BY <1>4, <2>1, <2>3 DEF Get, Balanced
<1> QED
  BY <1>1, <1>3, <1>4 DEF ComesBack

\* What it tells of its routes.
LEMMA JSONBalanced ==
  ASSUME NEW list, IsRouter(list), ComesBack(list)
  PROVE  AllBalanced(RoutesJSON(list))
<1>1. \A n \in DOMAIN list : Balanced(Exported(list[n]))
  BY RouteOfExported DEF IsRouter, ComesBack
<1> QED
  BY <1>1 DEF AllBalanced, RoutesJSON

\* The lists that a page makes of its own.
LEMMA MadeBalanced ==
  ASSUME NEW list, IsListed(list), AllBalanced(list)
  PROVE  /\ \A r : Balanced(r) => AllBalanced(Append(list, r))
         /\ \A r, i : Balanced(r) => AllBalanced(Replaced(list, i, r))
         /\ \A i : AllBalanced(LeftOut(list, i))
<1>1. IsList(list) /\ DOMAIN list = 1..Len(list) /\ Len(list) \in Nat
  BY ListFacts DEF IsListed, IsRoutes
<1>2. ASSUME NEW r, Balanced(r) PROVE AllBalanced(Append(list, r))
  <2> DEFINE longer == Append(list, r)
  <2>1. /\ DOMAIN longer = 1..(Len(list) + 1)
        /\ \A n \in 1..Len(list) : longer[n] = list[n]
        /\ longer[Len(list) + 1] = r
    BY <1>1, AppendType, ListFacts
  <2> HIDE DEF longer
  <2>2. \A n \in DOMAIN longer : n \in 1..Len(list) \/ n = Len(list) + 1
    BY <1>1, <2>1
  <2>3. AllBalanced(longer)
    BY <1>1, <1>2, <2>1, <2>2 DEF AllBalanced
  <2> QED
    BY <2>3 DEF longer
<1>3. Balanced(Hole)
  BY DEF Balanced, Hole, Empty
<1>4. ASSUME NEW r, NEW i, Balanced(r) PROVE AllBalanced(Replaced(list, i, r))
  BY <1>3, <1>4 DEF AllBalanced, Replaced
<1>5. ASSUME NEW i PROVE AllBalanced(LeftOut(list, i))
  <2>1. DOMAIN list \ {i} \in SUBSET DOMAIN list
    OBVIOUS
  <2> QED
    BY <1>1, <2>1, KeptType DEF LeftOut, AllBalanced
<1> QED
  BY <1>2, <1>4, <1>5

---------------------------------------------------------------------------
(* What copies, dialogs and saves are made of, by their versions: rt are   *)
(* the routes of the router and v is their version.                        *)

FaithfulQuery(q, rt, v) ==
  /\ q.at <= v
  /\ q.loaded => AllBalanced(q.data)
  /\ q.loaded /\ q.at = v => q.data = RoutesJSON(rt)
  /\ q.phase = "answered" => AllBalanced(q.got) /\ q.gotAt <= v
  /\ q.phase = "answered" /\ q.gotAt = v => q.got = RoutesJSON(rt)

FaithfulDialog(d, rt, v) ==
  d # Undefined =>
    /\ \A w \in d.versions : w <= v
    /\ d.kind \in {"add", "update"} => Balanced(d.form.formData)
    /\ d.kind # "add" /\ d.versions = {v} => d.index \in DOMAIN rt

\* The list is rt with one route added, replaced or left out.
MadeOf(m, list, rt) ==
  CASE m = "add" -> \E r : IsRoute(r) /\ list = Append(RoutesJSON(rt), r)
    [] m = "update" -> \E r, i : /\ IsRoute(r) /\ i \in DOMAIN rt
                                 /\ list = Replaced(RoutesJSON(rt), i, r)
    [] m = "delete" -> \E i \in DOMAIN rt : list = LeftOut(RoutesJSON(rt), i)

FaithfulSave(m, s, rt, v) ==
  /\ AllBalanced(s.list)
  /\ \A w \in s.shown : w <= v
  /\ s.phase = "posting" /\ s.shown = {v} => MadeOf(m, s.list, rt)

Faithful ==
  /\ ComesBack(router)
  /\ \A b \in Browsers :
       /\ FaithfulQuery(query[b], router, posts)
       /\ FaithfulDialog(dialog[b], router, posts)
       /\ \A m \in Mutations : FaithfulSave(m, saving[b][m], router, posts)

\* When the router gets other routes, everything is of an older version.
LEMMA NewVersion ==
  ASSUME NEW v \in Nat, NEW rt, NEW new
  PROVE  /\ \A q : IsQuery(q) /\ FaithfulQuery(q, rt, v) => FaithfulQuery(q, new, v + 1)
         /\ \A d : d = Undefined \/ IsDialog(d) =>
              (FaithfulDialog(d, rt, v) => FaithfulDialog(d, new, v + 1))
         /\ \A m, s : IsSave(s) /\ FaithfulSave(m, s, rt, v) => FaithfulSave(m, s, new, v + 1)
<1>1. ASSUME NEW q, IsQuery(q), FaithfulQuery(q, rt, v) PROVE FaithfulQuery(q, new, v + 1)
  BY <1>1 DEF IsQuery, FaithfulQuery
<1>2. ASSUME NEW W \in SUBSET Nat, \A w \in W : w <= v
      PROVE  W # {v + 1} /\ \A w \in W : w <= v + 1
  BY <1>2
<1>3. ASSUME NEW d, d = Undefined \/ IsDialog(d), FaithfulDialog(d, rt, v)
      PROVE  FaithfulDialog(d, new, v + 1)
  <2> SUFFICES ASSUME d # Undefined
               PROVE  /\ \A w \in d.versions : w <= v + 1
                      /\ d.kind \in {"add", "update"} => Balanced(d.form.formData)
                      /\ d.versions # {v + 1}
    BY DEF FaithfulDialog
  <2>1. d.versions \in SUBSET Nat /\ \A w \in d.versions : w <= v
    BY <1>3 DEF FaithfulDialog, IsDialog
  <2> QED
    BY <1>2, <1>3, <2>1 DEF FaithfulDialog
<1>4. ASSUME NEW m, NEW s, IsSave(s), FaithfulSave(m, s, rt, v)
      PROVE  FaithfulSave(m, s, new, v + 1)
  <2>1. s.shown \in SUBSET Nat /\ \A w \in s.shown : w <= v
    BY <1>4 DEF FaithfulSave, IsSave
  <2>2. s.shown # {v + 1} /\ \A w \in s.shown : w <= v + 1
    BY <1>2, <2>1
  <2> QED
    BY <1>4, <2>2 DEF FaithfulSave
<1> QED
  BY <1>1, <1>3, <1>4

\* What a page lists.
LEMMA CurrentFaithful ==
  ASSUME IInv, Faithful, NEW b \in Browsers
  PROVE  /\ IsListed(Current(b)) /\ AllBalanced(Current(b))
         /\ \A w \in ShownVersion(b) : w <= posts
         /\ ShownVersion(b) = {posts} => Current(b) = RoutesJSON(router)
<1>1. AllBalanced(<<>>)
  BY DEF AllBalanced
<1>2. FaithfulQuery(query[b], router, posts)
  BY DEF Faithful
<1> QED
  BY <1>1, <1>2, CurrentType DEF Current, ShownVersion, FaithfulQuery

\* The dialog of b changes to d, or closes.
LEMMA FaithfulDialogStep ==
  ASSUME IInv, Faithful, NEW b \in Browsers, NEW d, FaithfulDialog(d, router, posts),
         dialog' = [dialog EXCEPT ![b] = d],
         UNCHANGED <<router, posts, query, saving>>
  PROVE  Faithful'
<1>1. \A c \in Browsers : dialog'[c] = dialog[c] \/ dialog'[c] = d
  BY DEF IInv, TypeOK
<1> QED
  BY <1>1 DEF Faithful

\* The save m of b changes to s, and the dialog may close.
LEMMA FaithfulSaveStep ==
  ASSUME IInv, Faithful, NEW b \in Browsers, NEW m \in Mutations, NEW s,
         FaithfulSave(m, s, router, posts),
         saving' = [saving EXCEPT ![b][m] = s],
         UNCHANGED dialog \/ dialog' = [dialog EXCEPT ![b] = Undefined],
         UNCHANGED <<router, posts, query>>
  PROVE  Faithful'
<1>1. \A c \in Browsers : dialog'[c] = dialog[c] \/ dialog'[c] = Undefined
  BY DEF IInv, TypeOK
<1>2. \A c \in Browsers, n \in Mutations :
        saving'[c][n] = IF c = b /\ n = m THEN s ELSE saving[c][n]
  BY DEF IInv, TypeOK
<1>3. \A c \in Browsers : FaithfulDialog(dialog'[c], router, posts)
  BY <1>1 DEF Faithful, FaithfulDialog
<1>4. \A c \in Browsers, n \in Mutations : FaithfulSave(n, saving'[c][n], router, posts)
  BY <1>2 DEF Faithful
<1> QED
  BY <1>3, <1>4 DEF Faithful

\* The query of b changes to q.
LEMMA FaithfulQueryStep ==
  ASSUME IInv, Faithful, NEW b \in Browsers, NEW q, FaithfulQuery(q, router, posts),
         query' = [query EXCEPT ![b] = q],
         UNCHANGED <<router, posts, dialog, saving>>
  PROVE  Faithful'
<1>1. \A c \in Browsers : query'[c] = query[c] \/ query'[c] = q
  BY DEF IInv, TypeOK
<1> QED
  BY <1>1 DEF Faithful

\* A save starts with a list made of what the router has, if its version is
\* the router's.
LEMMA FaithfulMutate ==
  ASSUME IInv, Faithful, NEW b \in Browsers, NEW m \in Mutations,
         NEW list, AllBalanced(list), NEW shown, \A w \in shown : w <= posts,
         shown = {posts} => MadeOf(m, list, router),
         Mutate(b, m, list, shown),
         dialog' = [dialog EXCEPT ![b] = Undefined],
         UNCHANGED <<router, posts, query>>
  PROVE  Faithful'
<1> DEFINE s == [phase |-> "posting", list |-> list, shown |-> shown]
<1>1. saving' = [saving EXCEPT ![b][m] = s]
  BY DEF Mutate
<1>2. FaithfulSave(m, s, router, posts)
  BY DEF FaithfulSave
<1> HIDE DEF s
<1> QED
  BY <1>1, <1>2, FaithfulSaveStep

\* Every step of the user.
LEMMA FaithfulUser ==
  ASSUME IInv, Faithful, NEW b \in Browsers, UserSteps(b)
  PROVE  Faithful'
<1> DEFINE rows == Current(b)
           known == ShownVersion(b)
<1>1. /\ IsListed(rows) /\ AllBalanced(rows)
      /\ \A w \in known : w <= posts
      /\ known = {posts} => rows = RoutesJSON(router)
  BY CurrentFaithful
<1>2. FaithfulDialog(dialog[b], router, posts) /\ IsRouter(router) /\ ComesBack(router)
  BY DEF Faithful, IInv
<1>3. DOMAIN RoutesJSON(router) = DOMAIN router
  BY DEF RoutesJSON
<1>4. /\ RowVersion(b) = dialog[b].versions \/ RowVersion(b) = {}
      /\ RowVersion(b) = known \/ RowVersion(b) = {}
  BY DEF RowVersion
<1>5. RowVersion(b) = {posts} => dialog[b].versions = {posts} /\ known = {posts}
  BY <1>4
<1>6. IsFormOpen(b) => IsEdited(dialog[b].form) /\ Balanced(dialog[b].form.formData)
  BY <1>2 DEF IInv, Editing, IsFormOpen, FaithfulDialog
<1> HIDE DEF rows, known
<1>7. CASE Sort(b)
  BY <1>7 DEF Sort, Faithful
<1>8. CASE OpenNew(b)
  <2> DEFINE d == [kind |-> "add", index |-> 0, shown |-> Undefined, versions |-> {},
                   form |-> NewForm]
  <2>1. FaithfulDialog(d, router, posts)
    BY OpenedBalanced DEF FaithfulDialog
  <2>2. dialog' = [dialog EXCEPT ![b] = d]
    BY <1>8 DEF OpenNew
  <2> HIDE DEF d
  <2> QED
    BY <1>8, <2>1, <2>2, FaithfulDialogStep DEF OpenNew
<1>9. CASE OpenEdit(b)
  <2>1. PICK n \in DOMAIN rows, order \in SortedOrders(table[b], rows) :
          dialog' = [dialog EXCEPT ![b] =
            [kind |-> "update", index |-> n, shown |-> rows[order[n]],
             versions |-> known, form |-> FormOf(rows[order[n]])]]
    BY <1>9 DEF OpenEdit, rows, known
  <2> DEFINE d == [kind |-> "update", index |-> n, shown |-> rows[order[n]],
                   versions |-> known, form |-> FormOf(rows[order[n]])]
  <2>2. order[n] \in DOMAIN rows
    BY DEF SortedOrders
  <2>3. Balanced(FormOf(rows[order[n]]).formData)
    BY <1>1, <2>2, OpenedBalanced DEF AllBalanced
  <2>4. FaithfulDialog(d, router, posts)
    BY <1>1, <1>3, <2>3 DEF FaithfulDialog
  <2>5. dialog' = [dialog EXCEPT ![b] = d]
    BY <2>1
  <2> HIDE DEF d
  <2> QED
    BY <1>9, <2>4, <2>5, FaithfulDialogStep DEF OpenEdit
<1>10. CASE OpenDelete(b)
  <2>1. PICK n \in DOMAIN rows :
          dialog' = [dialog EXCEPT ![b] =
            [kind |-> "delete", index |-> n, shown |-> Undefined,
             versions |-> known, form |-> Undefined]]
    BY <1>10 DEF OpenDelete, rows, known
  <2> DEFINE d == [kind |-> "delete", index |-> n, shown |-> Undefined,
                   versions |-> known, form |-> Undefined]
  <2>2. FaithfulDialog(d, router, posts)
    BY <1>1, <1>3 DEF FaithfulDialog
  <2>3. dialog' = [dialog EXCEPT ![b] = d]
    BY <2>1
  <2> HIDE DEF d
  <2> QED
    BY <1>10, <2>2, <2>3, FaithfulDialogStep DEF OpenDelete
<1>11. CASE EditRoute(b)
  <2>1. IsFormOpen(b) /\ \E f \in RouteEdits(dialog[b].form) :
                            dialog' = [dialog EXCEPT ![b].form = f]
    BY <1>11 DEF EditRoute
  <2>2. PICK f \in RouteEdits(dialog[b].form) : dialog' = [dialog EXCEPT ![b].form = f]
    BY <2>1
  <2> DEFINE d == [dialog[b] EXCEPT !.form = f]
  <2>3. Balanced(f.formData)
    BY <1>6, <2>1, EditsBalanced
  <2>4. IsDialog(dialog[b]) /\ dialog[b] # Undefined
    BY <2>1 DEF IInv, TypeOK, IsFormOpen
  <2>5. /\ d.kind = dialog[b].kind /\ d.index = dialog[b].index
        /\ d.versions = dialog[b].versions /\ d.form = f
    BY <2>4 DEF IsDialog
  <2>6. FaithfulDialog(d, router, posts)
    BY <1>2, <2>3, <2>4, <2>5 DEF FaithfulDialog
  <2>7. dialog' = [dialog EXCEPT ![b] = d]
    BY <2>2
  <2> HIDE DEF d
  <2> QED
    BY <1>11, <2>6, <2>7, FaithfulDialogStep DEF EditRoute
<1>12. CASE Cancel(b)
  <2>1. FaithfulDialog(Undefined, router, posts)
    BY DEF FaithfulDialog
  <2> QED
    BY <1>12, <2>1, FaithfulDialogStep DEF Cancel
<1>13. CASE SubmitNew(b)
  <2> DEFINE r == Submitted(dialog[b].form)
             list == Append(rows, r)
  <2>1. IsFormOpen(b)
    BY <1>13 DEF SubmitNew
  <2>2. IsRoute(r) /\ Balanced(r)
    BY <1>6, <2>1, SubmittedType, SubmittedBalanced
  <2> HIDE DEF r
  <2>3. AllBalanced(list)
    BY <1>1, <2>2, MadeBalanced
  <2>4. known = {posts} => MadeOf("add", list, router)
    BY <1>1, <2>2 DEF MadeOf
  <2>5. Mutate(b, "add", list, known) /\ "add" \in Mutations
    BY <1>13 DEF SubmitNew, Mutations, rows, known, r
  <2> HIDE DEF list
  <2> QED
    BY <1>1, <1>13, <2>3, <2>4, <2>5, FaithfulMutate DEF SubmitNew
<1>14. CASE SubmitEdit(b)
  <2> DEFINE r == Submitted(dialog[b].form)
             i == dialog[b].index
             list == Replaced(rows, i, r)
  <2>1. IsFormOpen(b) /\ dialog[b].kind = "update" /\ dialog[b] # Undefined
    BY <1>14 DEF SubmitEdit, IsFormOpen
  <2>2. IsRoute(r) /\ Balanced(r)
    BY <1>6, <2>1, SubmittedType, SubmittedBalanced
  <2>3. RowVersion(b) = {posts} => i \in DOMAIN router
    BY <1>2, <1>5, <2>1 DEF FaithfulDialog
  <2> HIDE DEF r, i
  <2>4. AllBalanced(list)
    BY <1>1, <2>2, MadeBalanced
  <2>5. RowVersion(b) = {posts} => MadeOf("update", list, router)
    BY <1>1, <1>5, <2>2, <2>3 DEF MadeOf
  <2>6. Mutate(b, "update", list, RowVersion(b)) /\ "update" \in Mutations
    BY <1>14 DEF SubmitEdit, Mutations, rows, r, i
  <2>7. \A w \in RowVersion(b) : w <= posts
    BY <1>1, <1>4
  <2> HIDE DEF list
  <2> QED
    BY <1>14, <2>4, <2>5, <2>6, <2>7, FaithfulMutate DEF SubmitEdit
<1>15. CASE ConfirmDelete(b)
  <2> DEFINE i == dialog[b].index
             list == LeftOut(rows, i)
  <2>1. dialog[b].kind = "delete" /\ dialog[b] # Undefined
    BY <1>15 DEF ConfirmDelete
  <2>2. RowVersion(b) = {posts} => i \in DOMAIN router
    BY <1>2, <1>5, <2>1 DEF FaithfulDialog
  <2> HIDE DEF i
  <2>3. AllBalanced(list)
    BY <1>1, MadeBalanced
  <2>4. RowVersion(b) = {posts} => MadeOf("delete", list, router)
    BY <1>1, <1>5, <2>2 DEF MadeOf
  <2>5. Mutate(b, "delete", list, RowVersion(b)) /\ "delete" \in Mutations
    BY <1>15 DEF ConfirmDelete, Mutations, rows, i
  <2>6. \A w \in RowVersion(b) : w <= posts
    BY <1>1, <1>4
  <2> HIDE DEF list
  <2> QED
    BY <1>15, <2>3, <2>4, <2>5, <2>6, FaithfulMutate DEF ConfirmDelete
<1> QED
  BY <1>7, <1>8, <1>9, <1>10, <1>11, <1>12, <1>13, <1>14, <1>15 DEF UserSteps

\* Every step of a save.
LEMMA FaithfulSaves ==
  ASSUME IInv, Faithful, NEW b \in Browsers, NEW m \in Mutations, SaveSteps(b, m)
  PROVE  Faithful'
<1> DEFINE s == saving[b][m]
<1>1. /\ IsSave(s) /\ IsPosts(s.list) /\ DOMAIN saving = Browsers
      /\ DOMAIN saving[b] = Mutations /\ posts \in Nat
      /\ FaithfulSave(m, s, router, posts)
  BY DEF IInv, TypeOK, Posting, Faithful
<1>2. FaithfulSave(m, NoSave, router, posts)
  BY DEF FaithfulSave, NoSave, AllBalanced
<1>3. CASE GatewayLoads(b, m)
  <2> DEFINE t == [s EXCEPT !.phase = "answered"]
  <2>1. /\ saving' = [saving EXCEPT ![b][m] = t] /\ router' = Loaded(s.list)
        /\ posts' = posts + 1 /\ UNCHANGED <<query, dialog>>
    BY <1>1, <1>3 DEF GatewayLoads
  <2> HIDE DEF s
  <2>2. IsSave(t) /\ FaithfulSave(m, t, router, posts)
    BY <1>1 DEF IsSave, SavePhases, FaithfulSave
  <2>3. ComesBack(router')
    BY <1>1, <2>1, LoadedComesBack DEF FaithfulSave
  <2> HIDE DEF t
  <2>4. \A c \in Browsers : /\ IsQuery(query[c]) /\ FaithfulQuery(query[c], router, posts)
                            /\ dialog[c] = Undefined \/ IsDialog(dialog[c])
                            /\ FaithfulDialog(dialog[c], router, posts)
    BY DEF IInv, TypeOK, Faithful
  <2>5. \A c \in Browsers : /\ FaithfulQuery(query[c], router', posts + 1)
                            /\ FaithfulDialog(dialog[c], router', posts + 1)
    BY <1>1, <2>4, NewVersion
  <2>6. \A c \in Browsers, n \in Mutations :
          IsSave(saving'[c][n]) /\ FaithfulSave(n, saving'[c][n], router, posts)
    <3>1. \A c \in Browsers, n \in Mutations :
            saving'[c][n] = IF c = b /\ n = m THEN t ELSE saving[c][n]
      BY <2>1 DEF IInv, TypeOK
    <3> QED
      BY <2>2, <3>1 DEF IInv, TypeOK, Faithful
  <2>7. \A c \in Browsers, n \in Mutations :
          FaithfulSave(n, saving'[c][n], router', posts + 1)
    BY <1>1, <2>6, NewVersion
  <2> QED
    BY <2>1, <2>3, <2>5, <2>7 DEF Faithful
<1>4. CASE SaveFails(b, m)
  BY <1>2, <1>4, FaithfulSaveStep DEF SaveFails
<1>5. CASE Saved(b, m)
  <2>1. \A c \in Browsers, n \in Mutations :
          saving'[c][n] = IF c = b /\ n = m THEN NoSave ELSE saving[c][n]
    BY <1>5 DEF Saved, IInv, TypeOK
  <2>2. \A c \in Browsers, n \in Mutations : FaithfulSave(n, saving'[c][n], router, posts)
    BY <1>2, <2>1 DEF Faithful
  <2>3. ASSUME NEW q, IsQuery(q), FaithfulQuery(q, router, posts)
        PROVE  FaithfulQuery(Invalidated(q), router, posts)
    BY <2>3 DEF IsQuery, FetchPhases, FaithfulQuery, Invalidated, StartFetch
  <2>4. \A c \in Browsers : query'[c] = IF c = b THEN Invalidated(query[c]) ELSE query[c]
    BY <1>5 DEF Saved, IInv, TypeOK
  <2>5. \A c \in Browsers : FaithfulQuery(query'[c], router, posts)
    BY <2>3, <2>4 DEF IInv, TypeOK, Faithful
  <2>6. UNCHANGED <<router, posts, dialog>>
    BY <1>5 DEF Saved
  <2> QED
    BY <2>2, <2>5, <2>6 DEF Faithful
<1> QED
  BY <1>3, <1>4, <1>5 DEF SaveSteps

\* Every step of a query.
LEMMA FaithfulQueries ==
  ASSUME IInv, Faithful, NEW b \in Browsers, QuerySteps(b)
  PROVE  Faithful'
<1> DEFINE q == query[b]
           json == RoutesJSON(router)
<1>1. IsQuery(q) /\ posts \in Nat /\ FaithfulQuery(q, router, posts)
  BY DEF IInv, TypeOK, Faithful
<1>2. AllBalanced(json)
  BY JSONBalanced DEF IInv, Faithful
<1> HIDE DEF q
<1>3. /\ FaithfulQuery(StartFetch(q), router, posts)
      /\ FaithfulQuery(Answered(q, json, posts), router, posts)
      /\ q.phase = "answered" => FaithfulQuery(Arrived(q), router, posts)
      /\ FaithfulQuery(Failed(q), router, posts)
  BY <1>1, <1>2 DEF IsQuery, FetchPhases, FaithfulQuery, StartFetch, Answered, Arrived, Failed
<1> HIDE DEF json
<1>4. CASE Refetch(b)
  BY <1>3, <1>4, FaithfulQueryStep DEF Refetch, q
<1>5. CASE FetchAnswered(b)
  BY <1>3, <1>5, FaithfulQueryStep DEF FetchAnswered, q, json
<1>6. CASE FetchArrives(b)
  BY <1>3, <1>6, FaithfulQueryStep DEF FetchArrives, q
<1>7. CASE FetchFails(b)
  BY <1>3, <1>7, FaithfulQueryStep DEF FetchFails, q
<1> QED
  BY <1>4, <1>5, <1>6, <1>7 DEF QuerySteps

\* No step breaks this invariant either.
LEMMA FaithfulInductive == IInv /\ Faithful /\ [Next]_vars => Faithful'
<1> SUFFICES ASSUME IInv, Faithful, [Next]_vars PROVE Faithful'
  OBVIOUS
<1>1. CASE UNCHANGED vars
  BY <1>1 DEF vars, Faithful
<1> QED
  BY <1>1, FaithfulUser, FaithfulSaves, FaithfulQueries DEF Next

\* At first, when the configuration file names no empty strategy.
LEMMA InitFaithful ==
  ASSUME AllBalanced(FirstRoutes), Init
  PROVE  Faithful
<1> USE DEF Init
<1>1. IsPosts(FirstRoutes)
  BY FirstRoutesAssumption DEF IsRoutes, IsPosts, IsPosted
<1>2. ComesBack(router)
  BY <1>1, LoadedComesBack
<1>3. \A b \in Browsers : FaithfulQuery(query[b], router, posts)
  BY DEF FaithfulQuery, FirstFetch
<1>4. \A b \in Browsers, m \in Mutations : FaithfulSave(m, saving[b][m], router, posts)
  BY DEF FaithfulSave, NoSave, AllBalanced
<1> QED
  BY <1>2, <1>3, <1>4 DEF Faithful, FaithfulDialog

\* Only the gateway answers a save.
LEMMA AnsweredByGateway ==
  ASSUME IInv, [Next]_vars, NEW b \in Browsers, NEW m \in Mutations,
         saving[b][m].phase = "posting", saving'[b][m].phase = "answered"
  PROVE  router' = Loaded(saving[b][m].list)
<1> DEFINE t == saving[b][m]
<1>1. UNCHANGED saving => FALSE
  OBVIOUS
<1>2. /\ DOMAIN saving = Browsers
      /\ \A c \in Browsers : DOMAIN saving[c] = Mutations
  BY DEF IInv, TypeOK
<1>3. ASSUME NEW c \in Browsers, NEW n \in Mutations, NEW s, s.phase # "answered",
             saving' = [saving EXCEPT ![c][n] = s]
      PROVE  FALSE
  <2>1. saving'[b][m] = IF c = b /\ n = m THEN s ELSE t
    BY <1>2, <1>3
  <2> QED
    BY <1>3, <2>1
<1>4. \A c \in Browsers : ~UserSteps(c)
  <2> SUFFICES ASSUME NEW c \in Browsers, UserSteps(c) PROVE FALSE
    OBVIOUS
  <2>1. ASSUME NEW n \in Mutations, NEW list, NEW shown, Mutate(c, n, list, shown)
        PROVE  FALSE
    <3> DEFINE s == [phase |-> "posting", list |-> list, shown |-> shown]
    <3>1. saving' = [saving EXCEPT ![c][n] = s] /\ s.phase # "answered"
      BY <2>1 DEF Mutate
    <3> HIDE DEF s
    <3> QED
      BY <1>3, <3>1
  <2>2. "add" \in Mutations /\ "update" \in Mutations /\ "delete" \in Mutations
    BY DEF Mutations
  <2>3. ~SubmitNew(c) /\ ~SubmitEdit(c) /\ ~ConfirmDelete(c)
    BY <2>1, <2>2 DEF SubmitNew, SubmitEdit, ConfirmDelete
  <2> QED
    BY <1>1, <2>3 DEF UserSteps, Sort, OpenNew, OpenEdit, OpenDelete, EditRoute, Cancel
<1>5. \A c \in Browsers : ~QuerySteps(c)
  BY <1>1 DEF QuerySteps, Refetch, FetchAnswered, FetchArrives, FetchFails
<1>6. PICK c \in Browsers, n \in Mutations : SaveSteps(c, n)
  BY <1>1, <1>4, <1>5 DEF Next, vars
<1>7. ~SaveFails(c, n) /\ ~Saved(c, n)
  <2>1. NoSave.phase # "answered"
    BY DEF NoSave
  <2> QED
    BY <1>3, <2>1 DEF SaveFails, Saved
<1>8. GatewayLoads(c, n)
  BY <1>6, <1>7 DEF SaveSteps
<1>9. c = b /\ n = m
  BY <1>2, <1>8 DEF GatewayLoads
<1> QED
  BY <1>8, <1>9 DEF GatewayLoads

\* A save whose list and row were taken from what the gateway has changes, adds
\* or removes one route there and no other (useRoutes.ts; Router::loadRoutes and
\* getRoutesJSON), or gives a row a path of which no regular expression is made,
\* so that it and all below it are lost; for any routes, browsers and inputs, if
\* no route of the configuration file names an empty strategy: the router would
\* list it without.
THEOREM SavesChangeOneRow ==
  ASSUME AllBalanced(FirstRoutes)
  PROVE  Spec => SaveChangesOneRow
<1> DEFINE OneRow ==
      \A b \in Browsers, m \in Mutations :
        /\ saving[b][m].phase = "posting" /\ saving'[b][m].phase = "answered"
        /\ saving[b][m].shown = {posts}
        => CASE m = "add" -> /\ Len(router') <= Len(router) + 1
                             /\ SubSeq(router', 1, Len(router)) = router
             [] m = "update" ->
                  \E n \in DOMAIN router :
                    \/ SameBut(router, router', n)
                    \/ /\ BreaksOff(saving[b][m].list[n])
                       /\ router' = SubSeq(router, 1, n - 1)
             [] m = "delete" -> \E n \in DOMAIN router : router' = LeftOut(router, n)
<1>1. IInv /\ Faithful /\ [Next]_vars => OneRow
  <2> SUFFICES ASSUME IInv, Faithful, [Next]_vars, NEW b \in Browsers, NEW m \in Mutations,
                      saving[b][m].phase = "posting", saving'[b][m].phase = "answered",
                      saving[b][m].shown = {posts}
               PROVE  CASE m = "add" -> /\ Len(router') <= Len(router) + 1
                                        /\ SubSeq(router', 1, Len(router)) = router
                        [] m = "update" ->
                             \E n \in DOMAIN router :
                               \/ SameBut(router, router', n)
                               \/ /\ BreaksOff(saving[b][m].list[n])
                                  /\ router' = SubSeq(router, 1, n - 1)
                        [] m = "delete" -> \E n \in DOMAIN router : router' = LeftOut(router, n)
    OBVIOUS
  <2> DEFINE list == saving[b][m].list
  <2>1. router' = Loaded(list)
    BY AnsweredByGateway
  <2>2. IsRouter(router) /\ ComesBack(router) /\ MadeOf(m, list, router)
    BY DEF IInv, Faithful, FaithfulSave
  <2> HIDE DEF list
  <2>3. CASE m = "add"
    <3>1. PICK r : IsRoute(r) /\ list = Append(RoutesJSON(router), r)
      BY <2>2, <2>3 DEF MadeOf
    <3> QED
      BY <2>1, <2>2, <2>3, <3>1, LoadedAppend
  <2>4. CASE m = "update"
    <3>1. PICK r, i : /\ IsRoute(r) /\ i \in DOMAIN router
                      /\ list = Replaced(RoutesJSON(router), i, r)
      BY <2>2, <2>4 DEF MadeOf
    <3>2. CASE ~BreaksOff(r)
      <4>1. SameBut(router, router', i)
        BY <2>1, <2>2, <3>1, <3>2, LoadedReplaced
      <4> QED
        BY <2>4, <3>1, <4>1
    <3>3. CASE BreaksOff(r)
      <4>1. router' = SubSeq(router, 1, i - 1)
        BY <2>1, <2>2, <3>1, <3>3, LoadedBroken
      <4>2. list[i] = r
        BY <2>2, <3>1, JSONFacts DEF Replaced
      <4> QED
        BY <2>4, <3>1, <3>3, <4>1, <4>2 DEF list
    <3> QED
      BY <3>2, <3>3
  <2>5. CASE m = "delete"
    <3>1. PICK i \in DOMAIN router : list = LeftOut(RoutesJSON(router), i)
      BY <2>2, <2>5 DEF MadeOf
    <3>2. router' = LeftOut(router, i)
      BY <2>1, <2>2, <3>1, LoadedLeftOut
    <3> QED
      BY <2>5, <3>2
  <2> QED
    BY <2>3, <2>4, <2>5 DEF Mutations
<1>2. Init => Faithful
  BY InitFaithful
<1> QED
  BY <1>1, <1>2, InitIInv, Inductive, FaithfulInductive, PTL DEF Spec, SaveChangesOneRow
=============================================================================
