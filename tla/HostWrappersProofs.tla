------------------------- MODULE HostWrappersProofs -------------------------
(***************************************************************************)
(* HostWrappers keeps what HttpHost promises, for any number of resources: *)
(* the guest's wrappers and the adapter's handles stay in one-to-one       *)
(* correspondence, children with children, so that whatever a call of the  *)
(* adapter may come to is what the same call of the host could come to for *)
(* a component that holds the resources itself.                            *)
(***************************************************************************)
EXTENDS HostWrappers, TLAPS

(***************************************************************************)
(* The tables.                                                             *)
(***************************************************************************)
\* What the renaming of variants leaves as it is.
Plain(val) ==
  /\ val = [part \in DOMAIN val |-> val[part]]
  /\ "code" \in DOMAIN val =>
       /\ val = [code |-> val.code]
       /\ val.code = [variant |-> val.code.variant, payload |-> val.code.payload]
  /\ "method" \in DOMAIN val =>
       val.method = [variant |-> val.method.variant, payload |-> val.method.payload]

WellFormed(t) ==
  /\ DOMAIN t \subseteq HostHandle
  /\ \A h \in DOMAIN t :
       /\ t[h] = [kind |-> t[h].kind, of |-> t[h].of, taken |-> t[h].taken,
                  fixed |-> t[h].fixed, val |-> t[h].val]
       /\ t[h].of \in DOMAIN t \cup {None}
       /\ Plain(t[h].val)

\* Guest handles w wrap the handles of t, one each.
Wraps(w, t) ==
  /\ w = [g \in DOMAIN w |-> w[g]]
  /\ DOMAIN w \subseteq GuestHandle
  /\ {w[g] : g \in DOMAIN w} = DOMAIN t
  /\ \A g, k \in DOMAIN w : w[g] = w[k] => g = k

Within(w, h) == IF h = None THEN None ELSE CHOOSE g \in DOMAIN w : w[g] = h

View(w, t) == [g \in DOMAIN w |-> [t[w[g]] EXCEPT !.of = Within(w, @)]]

\* The refinement mapping, as an operator of the two tables.
LEMMA SeenIsView == Seen = View(wrapped, host)
BY DEF Seen, View, Within, Around

\* Each handle of the host is within one resource of the guest.
LEMMA WithinIs ==
  ASSUME NEW t, NEW w, Wraps(w, t), WellFormed(t)
  PROVE  /\ \A g \in DOMAIN w : Within(w, w[g]) = g /\ w[g] # None /\ g # None
         /\ Within(w, None) = None
         /\ \A h \in DOMAIN t : Within(w, h) \in DOMAIN w /\ w[Within(w, h)] = h
<1>1. ASSUME NEW g \in DOMAIN w PROVE Within(w, w[g]) = g /\ w[g] # None /\ g # None
  <2>1. w[g] \in HostHandle /\ g \in GuestHandle
    BY DEF Wraps, WellFormed
  <2>2. w[g] # None /\ g # None
    BY <2>1, HandlesAssumption
  <2>3. \A k \in DOMAIN w : w[k] = w[g] => k = g
    BY DEF Wraps
  <2> QED BY <2>2, <2>3 DEF Within
<1>2. \A h \in DOMAIN t : \E g \in DOMAIN w : h = w[g]
  BY DEF Wraps
<1> QED BY <1>1, <1>2 DEF Within

\* A resource as the guest sees it: the same but for its parent.
LEMMA ViewAt ==
  ASSUME NEW t, NEW w, Wraps(w, t), WellFormed(t), NEW g \in DOMAIN w
  PROVE  /\ DOMAIN View(w, t) = DOMAIN w
         /\ w[g] \in DOMAIN t
         /\ View(w, t)[g] = [kind |-> t[w[g]].kind, of |-> Within(w, t[w[g]].of),
              taken |-> t[w[g]].taken, fixed |-> t[w[g]].fixed, val |-> t[w[g]].val]
<1>1. w[g] \in DOMAIN t
  BY DEF Wraps
<1>2. t[w[g]] = [kind |-> t[w[g]].kind, of |-> t[w[g]].of, taken |-> t[w[g]].taken,
                 fixed |-> t[w[g]].fixed, val |-> t[w[g]].val]
  BY <1>1 DEF WellFormed
<1>3. View(w, t)[g] = [t[w[g]] EXCEPT !.of = Within(w, @)]
  BY DEF View
<1>4. \A r, kind, of, taken, fixed, val, x :
        r = [kind |-> kind, of |-> of, taken |-> taken, fixed |-> fixed, val |-> val] =>
        [r EXCEPT !.of = x] =
        [kind |-> kind, of |-> x, taken |-> taken, fixed |-> fixed, val |-> val]
  OBVIOUS
<1> HIDE DEF View
<1>5. [t[w[g]] EXCEPT !.of = Within(w, @)] =
       [kind |-> t[w[g]].kind, of |-> Within(w, t[w[g]].of),
              taken |-> t[w[g]].taken, fixed |-> t[w[g]].fixed, val |-> t[w[g]].val]
  BY <1>2, <1>4
<1> QED BY <1>1, <1>3, <1>5 DEF View

\* A resource has children for the guest when the one within has them.
LEMMA SameChildren ==
  ASSUME NEW t, NEW w, Wraps(w, t), WellFormed(t), NEW g \in DOMAIN w
  PROVE  Children(View(w, t), g) = {} <=> Children(t, w[g]) = {}
<1>1. DOMAIN View(w, t) = DOMAIN w
  BY DEF View
<1>2. ASSUME NEW k \in DOMAIN w PROVE View(w, t)[k].of = g <=> t[w[k]].of = w[g]
  <2>1. /\ w[k] \in DOMAIN t
        /\ View(w, t)[k] = [kind |-> t[w[k]].kind, of |-> Within(w, t[w[k]].of),
             taken |-> t[w[k]].taken, fixed |-> t[w[k]].fixed, val |-> t[w[k]].val]
    BY ViewAt
  <2>2. t[w[k]].of \in DOMAIN t \cup {None}
    BY <2>1 DEF WellFormed
  <2> QED BY <2>1, <2>2, WithinIs
<1>3. \A h \in DOMAIN t : \E k \in DOMAIN w : h = w[k]
  BY DEF Wraps
<1>4. \A k \in DOMAIN w : w[k] \in DOMAIN t
  BY DEF Wraps
<1> QED BY <1>1, <1>2, <1>3, <1>4 DEF Children

(***************************************************************************)
(* The changes of a table, and the same changes of the guest's.            *)
(***************************************************************************)
\* A table that differs in what is said of resources, not in which there are.
LEMMA ViewOfAmended ==
  ASSUME NEW t, NEW w, Wraps(w, t), WellFormed(t), NEW g \in DOMAIN w, NEW r,
         r = [kind |-> t[w[g]].kind, of |-> t[w[g]].of, taken |-> r.taken,
              fixed |-> t[w[g]].fixed, val |-> r.val],
         Plain(r.val)
  PROVE  LET u == [t EXCEPT ![w[g]] = r]
         IN  /\ WellFormed(u) /\ Wraps(w, u)
             /\ View(w, u) =
                  [View(w, t) EXCEPT ![g] =
                     [kind |-> @.kind, of |-> @.of, taken |-> r.taken,
                      fixed |-> @.fixed, val |-> r.val]]
<1> DEFINE u == [t EXCEPT ![w[g]] = r]
           V == View(w, t)
<1>1. w[g] \in DOMAIN t
  BY DEF Wraps
<1>2. DOMAIN u = DOMAIN t /\ u[w[g]] = r /\ \A h \in DOMAIN t : h # w[g] => u[h] = t[h]
  BY <1>1
<1>3. Wraps(w, u)
  BY <1>2 DEF Wraps
<1>4. WellFormed(u)
  <2>1. t[w[g]].of \in DOMAIN t \cup {None}
    BY <1>1 DEF WellFormed
  <2>2. r.of = t[w[g]].of /\ r = [kind |-> r.kind, of |-> r.of, taken |-> r.taken,
              fixed |-> r.fixed, val |-> r.val]
    OBVIOUS
  <2> HIDE DEF u
  <2> QED BY <1>2, <2>1, <2>2 DEF WellFormed
<1>5. DOMAIN View(w, u) = DOMAIN w /\ DOMAIN V = DOMAIN w
  BY DEF View
<1>6. View(w, u)[g] = [kind |-> t[w[g]].kind, of |-> Within(w, t[w[g]].of),
                       taken |-> r.taken, fixed |-> t[w[g]].fixed, val |-> r.val]
  <2>1. View(w, u)[g] = [kind |-> u[w[g]].kind, of |-> Within(w, u[w[g]].of),
              taken |-> u[w[g]].taken, fixed |-> u[w[g]].fixed, val |-> u[w[g]].val]
    BY <1>3, <1>4, ViewAt
  <2> HIDE DEF u
  <2> QED BY <1>2, <2>1
<1>7. [kind |-> V[g].kind, of |-> V[g].of, taken |-> r.taken,
       fixed |-> V[g].fixed, val |-> r.val] = View(w, u)[g]
  <2>1. V[g] = [kind |-> t[w[g]].kind, of |-> Within(w, t[w[g]].of),
              taken |-> t[w[g]].taken, fixed |-> t[w[g]].fixed, val |-> t[w[g]].val]
    BY ViewAt
  <2> HIDE DEF u, V
  <2> QED BY <1>6, <2>1
<1>8. \A k \in DOMAIN w : k # g => View(w, u)[k] = V[k]
  <2> SUFFICES ASSUME NEW k \in DOMAIN w, k # g PROVE View(w, u)[k] = V[k]
    OBVIOUS
  <2>1. w[k] \in DOMAIN t /\ w[k] # w[g]
    BY DEF Wraps
  <2>2. u[w[k]] = t[w[k]]
    BY <1>2, <2>1
  <2> HIDE DEF u
  <2> QED BY <2>2 DEF View
<1>9. View(w, u) = [V EXCEPT ![g] = [kind |-> @.kind, of |-> @.of,
                taken |-> r.taken, fixed |-> @.fixed, val |-> r.val]]
  <2>1. View(w, u) = [k \in DOMAIN w |-> View(w, u)[k]]
    BY DEF View
  <2> HIDE DEF u, V
  <2> QED BY <1>5, <1>7, <1>8, <2>1
<1> QED BY <1>3, <1>4, <1>9

\* A new resource, wrapped, is a new resource of the guest.
LEMMA ViewOfAdded ==
  ASSUME NEW t, NEW w, Wraps(w, t), WellFormed(t),
         NEW h \in HostHandle \ DOMAIN t, NEW g \in GuestHandle \ DOMAIN w,
         NEW p \in DOMAIN w \cup {None}, NEW kind, NEW fixed, NEW val, Plain(val)
  PROVE  LET of == IF p = None THEN None ELSE w[p]
             u == With(t, h, Resource(kind, of, fixed, val))
         IN  /\ WellFormed(u) /\ Wraps(With(w, g, h), u)
             /\ View(With(w, g, h), u) =
                  With(View(w, t), g, Resource(kind, p, fixed, val))
<1> DEFINE of == IF p = None THEN None ELSE w[p]
           r == Resource(kind, of, fixed, val)
           u == With(t, h, r)
           v == With(w, g, h)
           q == Resource(kind, p, fixed, val)
<1>1. /\ DOMAIN u = DOMAIN t \cup {h} /\ u[h] = r
      /\ \A i \in DOMAIN t : u[i] = t[i] /\ i # h
  BY DEF With
<1>2. /\ DOMAIN v = DOMAIN w \cup {g} /\ v[g] = h
      /\ \A i \in DOMAIN w : v[i] = w[i] /\ i # g
      /\ v = [i \in DOMAIN v |-> v[i]]
  BY DEF With
<1>3. r = [kind |-> kind, of |-> of, taken |-> FALSE, fixed |-> fixed, val |-> val]
  BY DEF Resource
<1>4. of \in DOMAIN t \cup {None}
  BY DEF Wraps
<1>5. WellFormed(u)
  <2>1. ASSUME NEW i \in DOMAIN t
        PROVE  /\ u[i] = [kind |-> u[i].kind, of |-> u[i].of, taken |-> u[i].taken,
                          fixed |-> u[i].fixed, val |-> u[i].val]
               /\ u[i].of \in DOMAIN u \cup {None} /\ Plain(u[i].val)
    <3>1. u[i] = t[i]
      BY <1>1
    <3> HIDE DEF u
    <3> QED BY <1>1, <3>1 DEF WellFormed
  <2>2. /\ u[h] = [kind |-> u[h].kind, of |-> u[h].of, taken |-> u[h].taken,
                   fixed |-> u[h].fixed, val |-> u[h].val]
        /\ u[h].of \in DOMAIN u \cup {None} /\ Plain(u[h].val)
    <3> HIDE DEF u, of
    <3> QED BY <1>1, <1>3, <1>4
  <2>3. DOMAIN u \subseteq HostHandle
    BY <1>1 DEF WellFormed
  <2> HIDE DEF u
  <2> QED BY <1>1, <2>1, <2>2, <2>3 DEF WellFormed
<1>6. Wraps(v, u)
  <2>1. DOMAIN v \subseteq GuestHandle
    BY <1>2 DEF Wraps
  <2>2. {v[i] : i \in DOMAIN v} = DOMAIN u
    <3>1. {w[i] : i \in DOMAIN w} = DOMAIN t
      BY DEF Wraps
    <3> HIDE DEF v, u
    <3> QED BY <1>1, <1>2, <3>1
  <2>3. ASSUME NEW i \in DOMAIN v, NEW j \in DOMAIN v, v[i] = v[j] PROVE i = j
    <3>1. \A l \in DOMAIN w : w[l] \in DOMAIN t
      BY DEF Wraps
    <3>2. \A l \in DOMAIN w : w[l] # h
      BY <3>1
    <3>3. \A l, m \in DOMAIN w : w[l] = w[m] => l = m
      BY DEF Wraps
    <3> HIDE DEF v
    <3> QED BY <1>2, <2>3, <3>2, <3>3
  <2> HIDE DEF u, v
  <2> QED BY <1>2, <2>1, <2>2, <2>3 DEF Wraps
<1>7. ASSUME NEW i \in DOMAIN t \cup {None} PROVE Within(v, i) = Within(w, i)
  <2>1. CASE i = None
    BY <2>1 DEF Within
  <2>2. CASE i \in DOMAIN t
    <3>1. PICK l \in DOMAIN w : w[l] = i
      BY <2>2 DEF Wraps
    <3>2. Within(w, w[l]) = l
      BY WithinIs
    <3>3. Within(v, v[l]) = l /\ v[l] = w[l]
      <4>1. l \in DOMAIN v /\ v[l] = w[l]
        BY <1>2
      <4> HIDE DEF u, v
      <4> QED BY <1>5, <1>6, <4>1, WithinIs
    <3> HIDE DEF v
    <3> QED BY <3>1, <3>2, <3>3
  <2> QED BY <2>1, <2>2
<1>8. ASSUME NEW i \in DOMAIN w PROVE View(v, u)[i] = View(w, t)[i]
  <2>1. i \in DOMAIN v /\ v[i] = w[i] /\ w[i] \in DOMAIN t
    BY <1>2 DEF Wraps
  <2>2. u[w[i]] = t[w[i]]
    BY <1>1, <2>1
  <2>3. t[w[i]].of \in DOMAIN t \cup {None}
    BY <2>1 DEF WellFormed
  <2>4. Within(v, t[w[i]].of) = Within(w, t[w[i]].of)
    BY <1>7, <2>3
  <2>5. View(v, u)[i] = [kind |-> u[v[i]].kind, of |-> Within(v, u[v[i]].of),
           taken |-> u[v[i]].taken, fixed |-> u[v[i]].fixed, val |-> u[v[i]].val]
    <3> HIDE DEF u, v
    <3> QED BY <1>5, <1>6, <2>1, ViewAt
  <2>6. View(w, t)[i] = [kind |-> t[w[i]].kind, of |-> Within(w, t[w[i]].of),
           taken |-> t[w[i]].taken, fixed |-> t[w[i]].fixed, val |-> t[w[i]].val]
    BY ViewAt
  <2> HIDE DEF u, v
  <2> QED BY <2>1, <2>2, <2>4, <2>5, <2>6
<1>9. View(v, u)[g] = q
  <2>1. Within(v, of) = p
    <3>1. CASE p = None
      <4>1. of = None
        BY <3>1
      <4> QED BY <3>1, <4>1 DEF Within
    <3>2. CASE p \in DOMAIN w
      <4>1. p # None /\ Within(w, w[p]) = p
        BY <3>2, WithinIs
      <4>2. of = w[p]
        BY <4>1
      <4> HIDE DEF of, v
      <4> QED BY <1>4, <1>7, <4>1, <4>2
    <3> QED BY <3>1, <3>2
  <2>2. View(v, u)[g] = [kind |-> u[v[g]].kind, of |-> Within(v, u[v[g]].of),
           taken |-> u[v[g]].taken, fixed |-> u[v[g]].fixed, val |-> u[v[g]].val]
    <3> HIDE DEF u, v
    <3> QED BY <1>2, <1>5, <1>6, ViewAt
  <2>3. q = [kind |-> kind, of |-> p, taken |-> FALSE, fixed |-> fixed, val |-> val]
    BY DEF Resource
  <2> HIDE DEF u, v, of, q, r
  <2>4. u[v[g]] = [kind |-> kind, of |-> of, taken |-> FALSE, fixed |-> fixed, val |-> val]
    BY <1>1, <1>2, <1>3
  <2> QED BY <2>1, <2>2, <2>3, <2>4
<1>10. View(v, u) = With(View(w, t), g, q)
  <2>1. DOMAIN View(w, t) = DOMAIN w /\ View(v, u) = [i \in DOMAIN v |-> View(v, u)[i]]
    BY DEF View
  <2> HIDE DEF u, v, q
  <2> QED BY <1>2, <1>8, <1>9, <2>1 DEF With
<1> QED BY <1>5, <1>6, <1>10

\* Childless resources that go take nothing else of the view with them.
LEMMA ViewOfRemoved ==
  ASSUME NEW t, NEW w, Wraps(w, t), WellFormed(t), NEW gone \in SUBSET DOMAIN w,
         \A g \in gone : Children(t, w[g]) = {}
  PROVE  LET u == Without(t, {w[g] : g \in gone})
         IN  /\ WellFormed(u) /\ Wraps(Without(w, gone), u)
             /\ View(Without(w, gone), u) = Without(View(w, t), gone)
<1> DEFINE hs == {w[g] : g \in gone}
           u == Without(t, hs)
           v == Without(w, gone)
<1>1. DOMAIN u = DOMAIN t \ hs /\ \A i \in DOMAIN u : u[i] = t[i] /\ i \in DOMAIN t
  BY DEF Without
<1>2. /\ DOMAIN v = DOMAIN w \ gone
      /\ \A i \in DOMAIN v : v[i] = w[i] /\ i \in DOMAIN w
      /\ v = [i \in DOMAIN v |-> v[i]]
  BY DEF Without
<1>3. \A i \in DOMAIN w : w[i] \in DOMAIN t /\ (w[i] \in hs <=> i \in gone)
  BY DEF Wraps
<1>4. \A i \in DOMAIN t : t[i].of \notin hs
  BY DEF Children
<1>5. WellFormed(u)
  <2> HIDE DEF u, hs
  <2> QED BY <1>1, <1>4 DEF WellFormed
<1>6. Wraps(v, u)
  <2>1. DOMAIN v \subseteq GuestHandle /\ \A i, j \in DOMAIN v : v[i] = v[j] => i = j
    <3> HIDE DEF v
    <3> QED BY <1>2 DEF Wraps
  <2>2. {v[i] : i \in DOMAIN v} = DOMAIN u
    <3>1. {w[i] : i \in DOMAIN w} = DOMAIN t
      BY DEF Wraps
    <3> HIDE DEF v, u, hs
    <3> QED BY <1>1, <1>2, <1>3, <3>1
  <2> HIDE DEF u, v
  <2> QED BY <1>2, <2>1, <2>2 DEF Wraps
<1>7. ASSUME NEW i \in DOMAIN u \cup {None} PROVE Within(v, i) = Within(w, i)
  <2>1. CASE i = None
    BY <2>1 DEF Within
  <2>2. CASE i \in DOMAIN u
    <3>1. PICK l \in DOMAIN v : v[l] = i
      <4> HIDE DEF u, v
      <4> QED BY <1>6, <2>2 DEF Wraps
    <3>2. l \in DOMAIN w /\ w[l] = i
      BY <1>2, <3>1
    <3>3. Within(w, w[l]) = l
      BY <3>2, WithinIs
    <3>4. Within(v, v[l]) = l
      <4> HIDE DEF u, v
      <4> QED BY <1>5, <1>6, <3>1, WithinIs
    <3> HIDE DEF v
    <3> QED BY <3>1, <3>2, <3>3, <3>4
  <2> QED BY <2>1, <2>2
<1>8. ASSUME NEW i \in DOMAIN v PROVE View(v, u)[i] = View(w, t)[i]
  <2>1. i \in DOMAIN w /\ v[i] = w[i] /\ w[i] \in DOMAIN u
    <3>1. v[i] \in DOMAIN u
      <4> HIDE DEF u, v
      <4> QED BY <1>6 DEF Wraps
    <3> HIDE DEF u, v
    <3> QED BY <1>2, <3>1
  <2>2. u[w[i]] = t[w[i]]
    BY <1>1, <2>1
  <2>3. t[w[i]].of \in DOMAIN u \cup {None}
    <3>1. u[w[i]].of \in DOMAIN u \cup {None}
      <4> HIDE DEF u
      <4> QED BY <1>5, <2>1 DEF WellFormed
    <3> HIDE DEF u
    <3> QED BY <2>2, <3>1
  <2>4. Within(v, t[w[i]].of) = Within(w, t[w[i]].of)
    BY <1>7, <2>3
  <2>5. View(v, u)[i] = [kind |-> u[v[i]].kind, of |-> Within(v, u[v[i]].of),
           taken |-> u[v[i]].taken, fixed |-> u[v[i]].fixed, val |-> u[v[i]].val]
    <3> HIDE DEF u, v
    <3> QED BY <1>5, <1>6, ViewAt
  <2>6. View(w, t)[i] = [kind |-> t[w[i]].kind, of |-> Within(w, t[w[i]].of),
           taken |-> t[w[i]].taken, fixed |-> t[w[i]].fixed, val |-> t[w[i]].val]
    BY <2>1, ViewAt
  <2> HIDE DEF u, v
  <2> QED BY <2>1, <2>2, <2>4, <2>5, <2>6
<1>9. View(v, u) = Without(View(w, t), gone)
  <2>1. DOMAIN View(w, t) = DOMAIN w /\ View(v, u) = [i \in DOMAIN v |-> View(v, u)[i]]
    BY DEF View
  <2> HIDE DEF u, v
  <2> QED BY <1>2, <1>8, <2>1 DEF Without
<1> QED BY <1>5, <1>6, <1>9

(***************************************************************************)
(* Outcomes.                                                               *)
(***************************************************************************)
Wrapping(w, given, new, g) ==
  LET rest == Without(w, given) IN IF new = None THEN rest ELSE With(rest, g, new)

Numbers(w, given, new) ==
  IF new = None THEN {None} ELSE GuestHandle \ (DOMAIN w \ given)

\* What outcome o of a call of the adapter comes to for the guest, whose wrappers
\* were w, who gave those of given away and gets what is new as g: outcome p.
Mirrors(w, given, o, g, p) ==
  LET v == IF o.trap THEN w ELSE Wrapping(w, given, o.new, g)
  IN  /\ WellFormed(o.own) /\ Wraps(v, o.own) /\ Plain(o.val)
      /\ p.own = View(v, o.own) /\ p.new = g
      /\ p.ret = o.ret /\ p.val = o.val /\ p.wire = o.wire /\ p.trap = o.trap

\* The forms of an outcome, one by one.
LEMMA SaysMirrors ==
  ASSUME NEW w, NEW given, NEW u, WellFormed(u), Wraps(Without(w, given), u),
         NEW ret, NEW val, Plain(val), NEW g \in Numbers(w, given, None)
  PROVE  Mirrors(w, given, Says(u, ret, val), g, Says(View(Without(w, given), u), ret, val))
BY DEF Mirrors, Says, Wrapping, Numbers

LEMMA GivesMirrors ==
  ASSUME NEW w, NEW given, NEW u, WellFormed(u), Wraps(Without(w, given), u),
         NEW h \in HostHandle \ DOMAIN u, NEW g \in Numbers(w, given, h),
         NEW p \in (DOMAIN w \ given) \cup {None},
         NEW kind, NEW fixed, NEW val, Plain(val)
  PROVE  LET of == IF p = None THEN None ELSE w[p]
             V == View(Without(w, given), u)
         IN  /\ g \in GuestHandle \ DOMAIN V
             /\ Mirrors(w, given, Gives(u, h, Resource(kind, of, fixed, val)), g,
                        Gives(V, g, Resource(kind, p, fixed, val)))
<1> DEFINE rest == Without(w, given)
           of == IF p = None THEN None ELSE w[p]
           V == View(rest, u)
           r == Resource(kind, of, fixed, val)
           q == Resource(kind, p, fixed, val)
<1>1. DOMAIN rest = DOMAIN w \ given /\ \A i \in DOMAIN rest : rest[i] = w[i]
  BY DEF Without
<1>2. h # None
  BY HandlesAssumption
<1>3. g \in GuestHandle \ DOMAIN rest /\ DOMAIN V = DOMAIN rest
  BY <1>1, <1>2 DEF Numbers, View
<1>4. of = IF p = None THEN None ELSE rest[p]
  BY <1>1
<1>5. /\ WellFormed(With(u, h, r)) /\ Wraps(With(rest, g, h), With(u, h, r))
      /\ View(With(rest, g, h), With(u, h, r)) = With(V, g, q)
  <2>1. p \in DOMAIN rest \cup {None}
    BY <1>1
  <2>2. g \in GuestHandle \ DOMAIN rest
    BY <1>3
  <2>3. Wraps(rest, u)
    OBVIOUS
  <2>4. LET o == IF p = None THEN None ELSE rest[p]
            t == With(u, h, Resource(kind, o, fixed, val))
        IN  /\ WellFormed(t) /\ Wraps(With(rest, g, h), t)
            /\ View(With(rest, g, h), t) =
                 With(View(rest, u), g, Resource(kind, p, fixed, val))
    <3> HIDE DEF rest
    <3> QED BY <2>1, <2>2, <2>3, ViewOfAdded
  <2> HIDE DEF rest, of
  <2> QED BY <1>4, <2>4
<1>6. Plain(Nil)
  BY DEF Plain, Nil
<1>7. Wrapping(w, given, h, g) = With(rest, g, h)
  BY <1>2 DEF Wrapping
<1>8. Mirrors(w, given, Gives(u, h, r), g, Gives(V, g, q))
  <2> HIDE DEF rest, of, V, r, q
  <2> QED BY <1>5, <1>6, <1>7 DEF Mirrors, Gives
<1> QED BY <1>3, <1>8

LEMMA TrapMirrors ==
  ASSUME NEW w, NEW given, NEW t, WellFormed(t), Wraps(w, t),
         NEW g \in Numbers(w, given, None)
  PROVE  Mirrors(w, given, Trap(t), g, Trap(View(w, t)))
<1>1. Plain(Nil)
  BY DEF Plain, Nil
<1> QED BY <1>1 DEF Mirrors, Trap, Says, Numbers

LEMMA RestMirrors ==
  ASSUME NEW w, NEW given, NEW o, NEW g, NEW p, NEW x, Mirrors(w, given, o, g, p),
         o = [own |-> o.own, new |-> o.new, ret |-> o.ret, val |-> o.val,
              wire |-> o.wire, trap |-> o.trap],
         p = [own |-> p.own, new |-> p.new, ret |-> p.ret, val |-> p.val,
              wire |-> p.wire, trap |-> p.trap]
  PROVE  /\ Mirrors(w, given, [o EXCEPT !.wire = x], g, [p EXCEPT !.wire = x])
         /\ Mirrors(w, given, [o EXCEPT !.ret = x], g, [p EXCEPT !.ret = x])
BY DEF Mirrors

LEMMA FailuresMirror ==
  ASSUME NEW w, NEW given, NEW u, WellFormed(u), Wraps(Without(w, given), u),
         NEW o \in Failures(u), NEW g \in Numbers(w, given, o.new)
  PROVE  \E p \in Failures(View(Without(w, given), u)) : Mirrors(w, given, o, g, p)
<1>1. PICK c \in Codes : o = Says(u, "code", [code |-> c])
  BY DEF Failures
<1>2. Plain([code |-> c])
  BY MessagesAssumption DEF Plain
<1>3. o.new = None
  BY <1>1 DEF Says
<1>4. Says(View(Without(w, given), u), "code", [code |-> c])
        \in Failures(View(Without(w, given), u))
  BY DEF Failures
<1> QED BY <1>1, <1>2, <1>3, <1>4, SaysMirrors

\* A call that takes nothing leaves the wrappers as they are.
LEMMA NothingTaken ==
  ASSUME NEW w, NEW t, Wraps(w, t)
  PROVE  Without(w, {}) = w
BY DEF Without, Wraps

LEMMA ResourceExcept ==
  \A r, kind, of, taken, fixed, val, x :
    r = [kind |-> kind, of |-> of, taken |-> taken, fixed |-> fixed, val |-> val] =>
    /\ [r EXCEPT !.taken = x] =
         [kind |-> kind, of |-> of, taken |-> x, fixed |-> fixed, val |-> val]
    /\ [r EXCEPT !.val = x] =
         [kind |-> kind, of |-> of, taken |-> taken, fixed |-> fixed, val |-> x]
<1>1. \A kind, of, taken, fixed, val, x :
        [[kind |-> kind, of |-> of, taken |-> taken, fixed |-> fixed, val |-> val]
           EXCEPT !.taken = x] =
        [kind |-> kind, of |-> of, taken |-> x, fixed |-> fixed, val |-> val]
  OBVIOUS
<1>2. \A kind, of, taken, fixed, val, x :
        [[kind |-> kind, of |-> of, taken |-> taken, fixed |-> fixed, val |-> val]
           EXCEPT !.val = x] =
        [kind |-> kind, of |-> of, taken |-> taken, fixed |-> fixed, val |-> x]
  OBVIOUS
<1> QED BY <1>1, <1>2

\* Taking the one-time part of a resource, and setting what is in it.
LEMMA ViewOfTaken ==
  ASSUME NEW t, NEW w, Wraps(w, t), WellFormed(t), NEW g \in DOMAIN w
  PROVE  LET u == [t EXCEPT ![w[g]].taken = TRUE]
         IN  /\ WellFormed(u) /\ Wraps(w, u)
             /\ View(w, u) = [View(w, t) EXCEPT ![g].taken = TRUE]
<1> DEFINE s == t[w[g]]
           r == [kind |-> s.kind, of |-> s.of, taken |-> TRUE, fixed |-> s.fixed,
                 val |-> s.val]
           q == View(w, t)[g]
<1>1. /\ s = [kind |-> s.kind, of |-> s.of, taken |-> s.taken, fixed |-> s.fixed,
              val |-> s.val]
      /\ Plain(s.val)
  BY DEF Wraps, WellFormed
<1>2. q = [kind |-> s.kind, of |-> Within(w, s.of), taken |-> s.taken,
           fixed |-> s.fixed, val |-> s.val]
  BY ViewAt
<1>3. [s EXCEPT !.taken = TRUE] = r
  <2> DEFINE yes == TRUE
  <2>1. [s EXCEPT !.taken = yes] = [kind |-> s.kind, of |-> s.of, taken |-> yes,
                                    fixed |-> s.fixed, val |-> s.val]
    <3> HIDE DEF s, yes
    <3> QED BY <1>1, ResourceExcept
  <2> QED BY <2>1
<1>4. [q EXCEPT !.taken = TRUE] = [kind |-> q.kind, of |-> q.of, taken |-> r.taken,
                                   fixed |-> q.fixed, val |-> r.val]
  <2> DEFINE yes == TRUE
  <2>1. [q EXCEPT !.taken = yes] = [kind |-> s.kind, of |-> Within(w, s.of),
           taken |-> yes, fixed |-> s.fixed, val |-> s.val]
    <3> HIDE DEF s, q, yes
    <3> QED BY <1>2, ResourceExcept
  <2>2. r.taken = yes /\ r.val = s.val
    OBVIOUS
  <2>3. [q EXCEPT !.taken = yes] = [kind |-> q.kind, of |-> q.of, taken |-> yes,
                                    fixed |-> q.fixed, val |-> s.val]
    <3> HIDE DEF s, q, yes
    <3> QED BY <1>2, <2>1
  <2> HIDE DEF s, q, r
  <2> QED BY <2>2, <2>3
<1>5. LET u == [t EXCEPT ![w[g]] = r]
      IN  /\ WellFormed(u) /\ Wraps(w, u)
          /\ View(w, u) = [View(w, t) EXCEPT ![g] =
                             [kind |-> @.kind, of |-> @.of, taken |-> r.taken,
                              fixed |-> @.fixed, val |-> r.val]]
  <2>1. r = [kind |-> t[w[g]].kind, of |-> t[w[g]].of, taken |-> r.taken,
             fixed |-> t[w[g]].fixed, val |-> r.val]
    OBVIOUS
  <2>2. Plain(r.val)
    BY <1>1
  <2> HIDE DEF r
  <2> QED BY <2>1, <2>2, ViewOfAmended
<1>6. [t EXCEPT ![w[g]].taken = TRUE] = [t EXCEPT ![w[g]] = r]
  BY <1>3
<1>7. [View(w, t) EXCEPT ![g].taken = TRUE] =
        [View(w, t) EXCEPT ![g] = [kind |-> @.kind, of |-> @.of, taken |-> r.taken,
                                   fixed |-> @.fixed, val |-> r.val]]
  BY <1>4
<1> QED BY <1>5, <1>6, <1>7

\* A call that says something of the table as it is, or as one resource of it is
\* amended.
LEMMA TellsMirrors ==
  ASSUME NEW t, NEW w, WellFormed(t), Wraps(w, t), NEW ret, NEW val, Plain(val)
  PROVE  Mirrors(w, {}, Says(t, ret, val), None, Says(View(w, t), ret, val))
BY SaysMirrors, NothingTaken DEF Numbers

\* The calls of HttpResources, one by one: each outcome for the adapter is one
\* that the same call of the host itself could have.
LEMMA MakingMirrors ==
  ASSUME NEW t, NEW w, WellFormed(t), Wraps(w, t), NEW op, NEW g \in DOMAIN w,
         NEW o \in Making(t, HostHandle, op, w[g]), NEW k \in Numbers(w, {}, o.new)
  PROVE  \E p \in Making(View(w, t), GuestHandle, op, g) : Mirrors(w, {}, o, k, p)
<1> DEFINE row == Makes[op]
           Used(x, h) == IF row.once THEN [x EXCEPT ![h].taken = TRUE] ELSE x
           Made(x, y, h, j, val) == Gives(x, j, Resource(row.to, IF row.child THEN h ELSE None,
                                   row.child /\ row.to = "fields", val))
           Late(x, y) == IF row.late THEN {Says(x, "none", Nil)} \cup Failures(y) ELSE {}
           S == View(w, t)
           h == w[g]
<1>1. \A x, all, i : Making(x, all, op, i) =
        IF row.once /\ x[i].taken THEN {Says(x, "err", Nil)}
        ELSE {Made(Used(x, i), x, i, j, val) : j \in all \ DOMAIN x, val \in Data(x, op, i)}
               \cup Late(x, Used(x, i))
  BY DEF Making
<1>2. /\ S[g] = [kind |-> t[h].kind, of |-> Within(w, t[h].of),
              taken |-> t[h].taken, fixed |-> t[h].fixed, val |-> t[h].val]
      /\ DOMAIN S = DOMAIN w
  BY ViewAt
<1>3. S[g].taken = t[h].taken /\ S[g].val = t[h].val
  BY <1>2
<1>4. /\ WellFormed(Used(t, h)) /\ Wraps(w, Used(t, h))
      /\ View(w, Used(t, h)) = Used(S, g)
  <2>1. CASE row.once
    BY <2>1, ViewOfTaken
  <2>2. CASE ~row.once
    BY <2>2
  <2> QED BY <2>1, <2>2
<1>5. DOMAIN Used(t, h) = DOMAIN t /\ DOMAIN Used(S, g) = DOMAIN S
  OBVIOUS
<1>6. Plain(Nil) /\ \A val \in Data(t, op, h) : Plain(val)
  BY DEF Plain, Nil, Data
<1>7. Data(t, op, h) = Data(S, op, g)
  BY <1>3 DEF Data
<1>8. Without(w, {}) = w
  BY NothingTaken
<1> HIDE DEF Used, Made, Late, S, h
<1>9. CASE o = Says(t, "err", Nil) /\ row.once /\ t[h].taken
  <2>1. Says(S, "err", Nil) \in Making(S, GuestHandle, op, g)
    <3>1. Making(S, GuestHandle, op, g) = {Says(S, "err", Nil)}
      <4>1. row.once /\ S[g].taken
        BY <1>3, <1>9
      <4> HIDE DEF row
      <4> QED BY <1>1, <4>1
    <3> QED BY <3>1
  <2>2. k = None
    BY <1>9 DEF Says, Numbers
  <2> QED BY <1>6, <1>9, <2>1, <2>2, TellsMirrors DEF S
<1>10. ASSUME ~(row.once /\ t[h].taken), NEW j \in HostHandle \ DOMAIN t,
              NEW val \in Data(t, op, h), o = Made(Used(t, h), t, h, j, val)
       PROVE  \E p \in Making(S, GuestHandle, op, g) : Mirrors(w, {}, o, k, p)
  <2> DEFINE p == Made(Used(S, g), S, g, k, val)
             parent == IF row.child THEN g ELSE None
             fixed == row.child /\ row.to = "fields"
  <2>1. g # None /\ h = w[g]
    BY WithinIs DEF h
  <2>2. (IF row.child THEN h ELSE None) = (IF parent = None THEN None ELSE w[parent])
    BY <2>1
  <2>3. o.new = j
    BY <1>10 DEF Made, Gives
  <2>4. /\ k \in GuestHandle \ DOMAIN View(Without(w, {}), Used(t, h))
        /\ Mirrors(w, {}, Gives(Used(t, h), j, Resource(row.to,
                       IF parent = None THEN None ELSE w[parent], fixed, val)), k,
             Gives(View(Without(w, {}), Used(t, h)), k, Resource(row.to, parent, fixed, val)))
    <3>1. parent \in (DOMAIN w \ {}) \cup {None} /\ k \in Numbers(w, {}, j)
      BY <2>3
    <3>2. Plain(val) /\ j \in HostHandle \ DOMAIN Used(t, h)
      BY <1>5, <1>6
    <3>3. Wraps(Without(w, {}), Used(t, h))
      BY <1>4, <1>8
    <3> HIDE DEF parent, fixed, row
    <3> QED BY <1>4, <3>1, <3>2, <3>3, GivesMirrors
  <2>5. o = Gives(Used(t, h), j, Resource(row.to,
                       IF parent = None THEN None ELSE w[parent], fixed, val))
    BY <1>10, <2>2 DEF Made
  <2>6. p = Gives(View(Without(w, {}), Used(t, h)), k, Resource(row.to, parent, fixed, val))
    BY <1>4, <1>8 DEF Made
  <2>7. k \in GuestHandle \ DOMAIN S
    BY <1>4, <1>5, <1>8, <2>4
  <2>8. p \in Making(S, GuestHandle, op, g)
    <3>1. val \in Data(S, op, g) /\ ~(row.once /\ S[g].taken)
      BY <1>3, <1>7, <1>10
    <3> HIDE DEF row
    <3> QED BY <1>1, <2>7, <3>1
  <2> HIDE DEF p, parent, fixed, row
  <2> QED BY <2>4, <2>5, <2>6, <2>8
<1>11. ASSUME ~(row.once /\ t[h].taken), o \in Late(t, Used(t, h))
       PROVE  \E p \in Making(S, GuestHandle, op, g) : Mirrors(w, {}, o, k, p)
  <2>1. Late(S, Used(S, g)) \subseteq Making(S, GuestHandle, op, g)
    BY <1>1, <1>3, <1>11
  <2>2. CASE o = Says(t, "none", Nil) /\ row.late
    <3>1. Says(S, "none", Nil) \in Late(S, Used(S, g))
      BY <2>2 DEF Late
    <3>2. k = None
      BY <2>2 DEF Says, Numbers
    <3> QED BY <1>6, <2>1, <2>2, <3>1, <3>2, TellsMirrors DEF S
  <2>3. CASE o \in Failures(Used(t, h)) /\ row.late
    <3>1. PICK p \in Failures(Used(S, g)) : Mirrors(w, {}, o, k, p)
      BY <1>4, <1>8, <2>3, FailuresMirror
    <3>2. p \in Late(S, Used(S, g))
      BY <2>3 DEF Late
    <3> QED BY <2>1, <3>1, <3>2
  <2> QED BY <1>11, <2>2, <2>3 DEF Late
<1>12. o \in Making(t, HostHandle, op, h)
  BY DEF h
<1>13. CASE row.once /\ t[h].taken
  BY <1>1, <1>9, <1>12, <1>13
<1>14. CASE ~(row.once /\ t[h].taken)
  <2>1. \/ \E j \in HostHandle \ DOMAIN t, val \in Data(t, op, h) :
             o = Made(Used(t, h), t, h, j, val)
        \/ o \in Late(t, Used(t, h))
    BY <1>1, <1>12, <1>14
  <2> HIDE DEF row
  <2> QED BY <1>10, <1>11, <1>14, <2>1 DEF S
<1> QED BY <1>13, <1>14 DEF S

\* A message on the wire, or what is said of it, is the same on either side.
LEMMA SaysMirrorsWith ==
  ASSUME NEW w, NEW given, NEW u, WellFormed(u), Wraps(Without(w, given), u),
         NEW ret, NEW val, Plain(val), NEW g \in Numbers(w, given, None), NEW x
  PROVE  Mirrors(w, given, [Says(u, ret, val) EXCEPT !.wire = x], g,
                 [Says(View(Without(w, given), u), ret, val) EXCEPT !.wire = x])
<1>1. Mirrors(w, given, Says(u, ret, val), g, Says(View(Without(w, given), u), ret, val))
  BY SaysMirrors
<1>2. \A y, z : LET o == Says(y, ret, z)
                IN  o = [own |-> o.own, new |-> o.new, ret |-> o.ret, val |-> o.val,
                         wire |-> o.wire, trap |-> o.trap]
  BY DEF Says
<1> QED BY <1>1, <1>2, RestMirrors

LEMMA GivesMirrorsWith ==
  ASSUME NEW w, NEW given, NEW u, NEW h, NEW r, NEW g, NEW V, NEW q,
         Mirrors(w, given, Gives(u, h, r), g, Gives(V, g, q)), NEW x
  PROVE  /\ Mirrors(w, given, [Gives(u, h, r) EXCEPT !.wire = x], g,
                    [Gives(V, g, q) EXCEPT !.wire = x])
         /\ Mirrors(w, given, [Gives(u, h, r) EXCEPT !.ret = x], g,
                    [Gives(V, g, q) EXCEPT !.ret = x])
<1>1. \A y, j, z : LET o == Gives(y, j, z)
                   IN  o = [own |-> o.own, new |-> o.new, ret |-> o.ret, val |-> o.val,
                            wire |-> o.wire, trap |-> o.trap]
  BY DEF Gives
<1> QED BY <1>1, RestMirrors

Eaters == {"new_request", "new_response", "finish_incoming", "finish_outgoing", "handle"}

\* The functions that take resources take one or two.
LEMMA ArgumentsAre ==
  ASSUME NEW t, NEW op \in Eaters, NEW args \in Arguments(t, op)
  PROVE  /\ DOMAIN args \subseteq Nat /\ 1 \in DOMAIN args
         /\ Len(args) \in Nat /\ DOMAIN args = 1..Len(args)
         /\ \A i \in DOMAIN args : args[i] \in DOMAIN t
<1>1. Eats[op].least = 1 /\ Len(Eats[op].eats) \in 1..2
  <2>1. \A x : Len(<<x>>) = 1
    OBVIOUS
  <2>2. \A x, y : Len(<<x, y>>) = 2
    OBVIOUS
  <2>3. /\ Eats["new_request"].least = 1 /\ Eats["new_request"].eats = <<"fields">>
        /\ Eats["new_response"].least = 1 /\ Eats["new_response"].eats = <<"fields">>
        /\ Eats["finish_incoming"].least = 1
        /\ Eats["finish_incoming"].eats = <<"incoming-body">>
        /\ Eats["finish_outgoing"].least = 1
        /\ Eats["finish_outgoing"].eats = <<"outgoing-body", "fields">>
        /\ Eats["handle"].least = 1
        /\ Eats["handle"].eats = <<"outgoing-request", "request-options">>
    BY DEF Eats
  <2>4. /\ Len(Eats["new_request"].eats) = 1 /\ Len(Eats["new_response"].eats) = 1
        /\ Len(Eats["finish_incoming"].eats) = 1
    BY <2>1, <2>3
  <2>5. Len(Eats["finish_outgoing"].eats) = 2 /\ Len(Eats["handle"].eats) = 2
    BY <2>2, <2>3
  <2> DEFINE Few(x) == Eats[x].least = 1 /\ Len(Eats[x].eats) \in 1..2
  <2>6. /\ Few("new_request") /\ Few("new_response") /\ Few("finish_incoming")
        /\ Few("finish_outgoing") /\ Few("handle")
    BY <2>3, <2>4, <2>5
  <2> HIDE DEF Few
  <2>7. Few(op)
    BY <2>6 DEF Eaters
  <2> QED BY <2>7 DEF Few
<1>2. PICK n \in Eats[op].least..Len(Eats[op].eats) : args \in [1..n -> DOMAIN t]
  BY DEF Arguments
<1>3. n \in 1..2
  <2> DEFINE least == Eats[op].least
             most == Len(Eats[op].eats)
  <2>1. least = 1 /\ most \in 1..2 /\ n \in least..most
    BY <1>1, <1>2
  <2> HIDE DEF least, most
  <2> QED BY <2>1
<1>4. Len(args) = n /\ args \in Seq(DOMAIN t)
  BY <1>2, <1>3
<1> QED BY <1>2, <1>3, <1>4

LEMMA EatingMirrors ==
  ASSUME NEW t, NEW w, WellFormed(t), Wraps(w, t), NEW op \in Eaters,
         NEW args \in Arguments(View(w, t), op),
         NEW o \in Eating(t, HostHandle, op, [i \in DOMAIN args |-> w[args[i]]]),
         NEW k \in Numbers(w, {args[i] : i \in DOMAIN args}, o.new)
  PROVE  \E p \in Eating(View(w, t), GuestHandle, op, args) :
           Mirrors(w, {args[i] : i \in DOMAIN args}, o, k, p)
<1> DEFINE row == Eats[op]
           S == View(w, t)
           within == [i \in DOMAIN args |-> w[args[i]]]
           given == {args[i] : i \in DOMAIN args}
           away == {within[i] : i \in DOMAIN within}
           Val(x, as) == CASE row.to = "outgoing-request" ->
                         [headers |-> x[as[1]].val.headers, method |-> GET]
                    [] row.to = "outgoing-response" ->
                         [headers |-> x[as[1]].val.headers, status |-> OK]
                    [] OTHER -> Nil
           Message(x, as) == IF row.fails
                      THEN [sent |-> op, val |-> x[as[1]].val,
                            with |-> IF Len(as) = 2 THEN x[as[2]].val ELSE Nil]
                      ELSE Quiet
           Made(x, y, j) == Gives(x, j, Resource(row.to, None, FALSE, y))
           Done(x, all, y) == IF row.to = "" THEN {Says(x, "ok", Nil)}
                              ELSE {Made(x, y, j) : j \in all \ DOMAIN x}
           Failed(x) == IF row.fails THEN Failures(x) ELSE {}
           Sent(os, x) == {[d EXCEPT !.wire = x] : d \in os}
           rest == Without(t, away)
           left == Without(S, given)
           val == Val(t, within)
           message == Message(t, within)
<1>1. /\ Eating(t, HostHandle, op, within) =
           IF \E h \in away : Children(t, h) # {} THEN {Trap(t)}
           ELSE Sent(Done(rest, HostHandle, val), message) \cup Failed(rest)
      /\ Eating(S, GuestHandle, op, args) =
           IF \E g \in given : Children(S, g) # {} THEN {Trap(S)}
           ELSE Sent(Done(left, GuestHandle, Val(S, args)), Message(S, args)) \cup Failed(left)
  BY Zenon DEF Eating
<1>2. /\ 1 \in DOMAIN args /\ Len(args) \in Nat /\ DOMAIN args = 1..Len(args)
      /\ \A i \in DOMAIN args : args[i] \in DOMAIN w
  <2>1. DOMAIN S = DOMAIN w
    BY DEF View
  <2> QED BY <2>1, ArgumentsAre
<1>3. Len(within) = Len(args)
  <2>1. within \in [1..Len(args) -> DOMAIN t] 
    BY <1>2 DEF Wraps
  <2> HIDE DEF within
  <2> QED BY <1>2, <2>1
<1>4. \A i \in DOMAIN args : S[args[i]].val = t[within[i]].val
  <2> SUFFICES ASSUME NEW i \in DOMAIN args PROVE S[args[i]].val = t[w[args[i]]].val
    OBVIOUS
  <2>1. args[i] \in DOMAIN w
    BY <1>2
  <2>2. S[args[i]] = [kind |-> t[w[args[i]]].kind, of |-> Within(w, t[w[args[i]]].of),
                      taken |-> t[w[args[i]]].taken, fixed |-> t[w[args[i]]].fixed,
                      val |-> t[w[args[i]]].val]
    BY <2>1, ViewAt
  <2> HIDE DEF S
  <2> QED BY <2>2
<1>5. Val(S, args) = val /\ Message(S, args) = message
  <2>1. S[args[1]].val = t[within[1]].val
    BY <1>2, <1>4
  <2>2. Len(args) = 2 => S[args[2]].val = t[within[2]].val
    BY <1>2, <1>4
  <2> HIDE DEF S, within, row
  <2> QED BY <1>3, <2>1, <2>2
<1>6. away = {w[g] : g \in given} /\ given \in SUBSET DOMAIN w
  BY <1>2
<1>7. Plain(val) /\ Plain(Nil)
  <2>1. GET = [variant |-> GET.variant, payload |-> GET.payload]
    BY MessagesAssumption DEF GET
  <2>2. \A x : Plain([headers |-> x, method |-> GET]) /\ Plain([headers |-> x, status |-> OK])
    BY <2>1 DEF Plain
  <2>3. Plain(Nil)
    BY DEF Plain, Nil
  <2> HIDE DEF within, row
  <2> QED BY <2>2, <2>3
<1>8. (\E h \in away : Children(t, h) # {}) <=> (\E g \in given : Children(S, g) # {})
  <2>1. \A g \in given : Children(S, g) = {} <=> Children(t, w[g]) = {}
    BY <1>6, SameChildren
  <2> HIDE DEF given, away, S
  <2> QED BY <1>6, <2>1
<1>9. CASE \E h \in away : Children(t, h) # {}
  <2>1. o = Trap(t) /\ Trap(S) \in Eating(S, GuestHandle, op, args)
    <3> HIDE DEF given, away, S, Sent, Done, Failed, within
    <3>1. o \in Eating(t, HostHandle, op, within)
      BY DEF within
    <3> QED BY <1>1, <1>8, <1>9, <3>1
  <2>2. k \in Numbers(w, given, None)
    BY <2>1 DEF Trap, Says
  <2> QED BY <2>1, <2>2, TrapMirrors
<1>10. CASE ~\E h \in away : Children(t, h) # {}
  <2>1. WellFormed(rest) /\ Wraps(Without(w, given), rest) /\ View(Without(w, given), rest) = left
    <3>1. \A g \in given : Children(t, w[g]) = {}
      BY <1>6, <1>10
    <3> HIDE DEF given, S, away
    <3>2. rest = Without(t, {w[g] : g \in given})
      BY <1>6
    <3> HIDE DEF rest
    <3> QED BY <1>6, <3>1, <3>2, ViewOfRemoved DEF S
  <2>2. /\ o \in Sent(Done(rest, HostHandle, val), message) \cup Failed(rest)
        /\ Eating(S, GuestHandle, op, args) =
             Sent(Done(left, GuestHandle, val), message) \cup Failed(left)
    <3>1. o \in Eating(t, HostHandle, op, within)
      OBVIOUS
    <3> HIDE DEF given, away, S, Sent, Done, Failed, within, left, rest, Val, Message, val, message
    <3> QED BY <1>1, <1>5, <1>8, <1>10, <3>1
  <2> HIDE DEF left, rest, S, within, val, message, given, away
  <2>3. ASSUME o \in Failed(rest)
        PROVE  \E p \in Failed(left) : Mirrors(w, given, o, k, p)
    <3>1. o \in Failures(rest) /\ Failed(left) = Failures(left)
      BY <2>3
    <3>2. k \in Numbers(w, given, o.new)
      BY DEF given
    <3> QED BY <2>1, <3>1, <3>2, FailuresMirror
  <2>4. ASSUME o \in Sent(Done(rest, HostHandle, val), message)
        PROVE  \E p \in Sent(Done(left, GuestHandle, val), message) :
                 Mirrors(w, given, o, k, p)
    <3>0. k \in Numbers(w, given, o.new)
      BY DEF given
    <3>1. PICK d \in Done(rest, HostHandle, val) : o = [d EXCEPT !.wire = message]
      BY <2>4
    <3>2. CASE row.to = ""
      <4>1. d = Says(rest, "ok", Nil)
        BY <3>1, <3>2
      <4>2. o.new = None
        BY <3>1, <4>1 DEF Says
      <4>3. Mirrors(w, given, o, k, [Says(left, "ok", Nil) EXCEPT !.wire = message])
        BY <1>7, <2>1, <3>0, <3>1, <4>1, <4>2, SaysMirrorsWith
      <4>4. Says(left, "ok", Nil) \in Done(left, GuestHandle, val)
        BY <3>2
      <4> HIDE DEF Done
      <4> QED BY <4>3, <4>4
    <3>3. CASE row.to # ""
      <4>1. PICK j \in HostHandle \ DOMAIN rest : d = Made(rest, val, j)
        BY <3>1, <3>3
      <4>2. o.new = j
        BY <3>1, <4>1 DEF Gives
      <4>3. /\ k \in GuestHandle \ DOMAIN View(Without(w, given), rest)
            /\ Mirrors(w, given, Gives(rest, j, Resource(row.to, None, FALSE, val)), k,
                 Gives(View(Without(w, given), rest), k, Resource(row.to, None, FALSE, val)))
        <5> DEFINE p == None
                   no == FALSE
        <5>1. p \in (DOMAIN w \ given) \cup {None} /\ (IF p = None THEN None ELSE w[p]) = None
          OBVIOUS
        <5>2. k \in Numbers(w, given, j)
          BY <3>0, <4>2
        <5>3. LET of == IF p = None THEN None ELSE w[p]
                  V == View(Without(w, given), rest)
              IN  /\ k \in GuestHandle \ DOMAIN V
                  /\ Mirrors(w, given, Gives(rest, j, Resource(row.to, of, no, val)), k,
                             Gives(V, k, Resource(row.to, p, no, val)))
          <6> HIDE DEF p, no, row
          <6> QED BY <1>7, <2>1, <4>1, <5>1, <5>2, GivesMirrors
        <5> QED BY <5>3
      <4>4. k \in GuestHandle \ DOMAIN left
        BY <2>1, <4>3
      <4>5. Mirrors(w, given, o, k, [Made(left, val, k) EXCEPT !.wire = message])
        <5>1. Mirrors(w, given, Gives(rest, j, Resource(row.to, None, FALSE, val)), k,
                      Gives(left, k, Resource(row.to, None, FALSE, val)))
          BY <2>1, <4>3
        <5> HIDE DEF row
        <5> QED BY <3>1, <4>1, <5>1, GivesMirrorsWith
      <4>6. Made(left, val, k) \in Done(left, GuestHandle, val)
        BY <3>3, <4>4
      <4> HIDE DEF Done, Made
      <4> QED BY <4>5, <4>6
    <3> QED BY <3>2, <3>3
  <2> HIDE DEF Sent, Done, Failed
  <2>5. \E p \in Eating(S, GuestHandle, op, args) : Mirrors(w, given, o, k, p)
    BY <2>2, <2>3, <2>4
  <2> QED BY <2>5 DEF S, given
<1> QED BY <1>9, <1>10

\* What is set is of the form that was there.
LEMMA PlainAmended ==
  ASSUME NEW val, Plain(val), NEW part, NEW x, part # "code",
         part = "method" => x = [variant |-> x.variant, payload |-> x.payload]
  PROVE  Plain([val EXCEPT ![part] = x])
<1> DEFINE new == [val EXCEPT ![part] = x]
<1>1. /\ DOMAIN new = DOMAIN val
      /\ \A p \in DOMAIN val : new[p] = IF p = part THEN x ELSE val[p]
      /\ new = [p \in DOMAIN new |-> new[p]]
  BY DEF Plain
<1>2. ASSUME "code" \in DOMAIN new
      PROVE  /\ new = [code |-> new.code]
             /\ new.code = [variant |-> new.code.variant, payload |-> new.code.payload]
  <2>1. /\ val = [code |-> val.code]
        /\ val.code = [variant |-> val.code.variant, payload |-> val.code.payload]
    BY <1>1, <1>2 DEF Plain
  <2>2. DOMAIN val = {"code"}
    BY <2>1
  <2>3. new.code = val.code
    BY <1>1, <2>2
  <2> HIDE DEF new
  <2>4. new = [code |-> new.code]
    BY <1>1, <2>2
  <2> QED BY <2>1, <2>3, <2>4
<1>3. ASSUME "method" \in DOMAIN new
      PROVE  new.method = [variant |-> new.method.variant, payload |-> new.method.payload]
  <2>1. new.method = IF part = "method" THEN x ELSE val.method
    BY <1>1, <1>3
  <2>2. "method" \in DOMAIN val
    BY <1>1, <1>3
  <2> HIDE DEF new
  <2> QED BY <2>1, <2>2 DEF Plain
<1> HIDE DEF new
<1>4. Plain(new)
  BY <1>1, <1>2, <1>3 DEF Plain
<1> QED BY <1>4 DEF new

LEMMA SetMirrors ==
  ASSUME NEW t, NEW w, WellFormed(t), Wraps(w, t), NEW g \in DOMAIN w, NEW part, NEW x,
         part # "code",
         part = "method" => x = [variant |-> x.variant, payload |-> x.payload]
  PROVE  Mirrors(w, {}, Says([t EXCEPT ![w[g]].val[part] = x], "ok", Nil), None,
                 Says([View(w, t) EXCEPT ![g].val[part] = x], "ok", Nil))
<1> DEFINE s == t[w[g]]
           val == [s.val EXCEPT ![part] = x]
           r == [kind |-> s.kind, of |-> s.of, taken |-> s.taken, fixed |-> s.fixed,
                 val |-> val]
           q == View(w, t)[g]
<1>0. Plain(val)
  <2>1. Plain(s.val)
    BY DEF WellFormed, Wraps
  <2> HIDE DEF s
  <2> QED BY <2>1, PlainAmended
<1>1. s = [kind |-> s.kind, of |-> s.of, taken |-> s.taken, fixed |-> s.fixed,
           val |-> s.val]
  BY DEF Wraps, WellFormed
<1>2. q = [kind |-> s.kind, of |-> Within(w, s.of), taken |-> s.taken,
           fixed |-> s.fixed, val |-> s.val]
  BY ViewAt
<1>3. [s EXCEPT !.val = val] = r
  <2> HIDE DEF s, val
  <2> QED BY <1>1
<1>4. q.val = s.val
  <2> HIDE DEF s, q
  <2> QED BY <1>2
<1>5. [q EXCEPT !.val = val] = [kind |-> q.kind, of |-> q.of, taken |-> r.taken,
                                fixed |-> q.fixed, val |-> r.val]
  <2> HIDE DEF s, q, val
  <2> QED BY <1>2
<1>6. LET u == [t EXCEPT ![w[g]] = r]
      IN  /\ WellFormed(u) /\ Wraps(w, u)
          /\ View(w, u) = [View(w, t) EXCEPT ![g] =
                             [kind |-> @.kind, of |-> @.of, taken |-> r.taken,
                              fixed |-> @.fixed, val |-> r.val]]
  <2>1. r = [kind |-> t[w[g]].kind, of |-> t[w[g]].of, taken |-> r.taken,
             fixed |-> t[w[g]].fixed, val |-> r.val]
    OBVIOUS
  <2>2. Plain(r.val)
    BY <1>0
  <2> HIDE DEF r
  <2> QED BY <2>1, <2>2, ViewOfAmended
<1>7. [t EXCEPT ![w[g]].val[part] = x] = [t EXCEPT ![w[g]] = r]
  BY <1>3
<1>8. [View(w, t) EXCEPT ![g].val[part] = x] =
        [View(w, t) EXCEPT ![g] = [kind |-> @.kind, of |-> @.of, taken |-> r.taken,
                                   fixed |-> @.fixed, val |-> r.val]]
  BY <1>4, <1>5
<1>9. Plain(Nil)
  BY DEF Plain, Nil
<1> QED BY <1>6, <1>7, <1>8, <1>9, TellsMirrors

LEMMA ConstructingMirrors ==
  ASSUME NEW t, NEW w, WellFormed(t), Wraps(w, t),
         NEW kind \in {"fields", "request-options", "resolve-address-stream"},
         NEW o \in Constructing(t, HostHandle, kind), NEW k \in Numbers(w, {}, o.new)
  PROVE  \E p \in Constructing(View(w, t), GuestHandle, kind) : Mirrors(w, {}, o, k, p)
<1> DEFINE S == View(w, t)
           Made(x, j, val) == Gives(x, j, Resource(kind, None, FALSE, val))
           Told(x) == {Says(x, e, Nil) : e \in Unmade(kind)}
<1>0. \A x, all : Constructing(x, all, kind) =
        {Made(x, j, val) : j \in all \ DOMAIN x, val \in Fresh(kind)} \cup Told(x)
  BY DEF Constructing
<1>1. Plain(Nil) /\ \A val \in Fresh(kind) : Plain(val)
  BY DEF Plain, Nil, Fresh
<1>2. CASE \E e \in Unmade(kind) : o = Says(t, e, Nil)
  <2>1. PICK e \in Unmade(kind) : o = Says(t, e, Nil)
    BY <1>2
  <2>2. k = None
    BY <2>1 DEF Says, Numbers
  <2>3. Says(S, e, Nil) \in Constructing(S, GuestHandle, kind)
    <3>1. Says(S, e, Nil) \in Told(S)
      OBVIOUS
    <3> HIDE DEF S, Told, Made
    <3> QED BY <1>0, <3>1
  <2> QED BY <1>1, <2>1, <2>2, <2>3, TellsMirrors
<1>3. CASE \E j \in HostHandle \ DOMAIN t, val \in Fresh(kind) :
             o = Made(t, j, val)
  <2>1. PICK j \in HostHandle \ DOMAIN t, val \in Fresh(kind) :
          o = Made(t, j, val)
    BY <1>3
  <2>2. o.new = j
    BY <2>1 DEF Gives
  <2> DEFINE p == None
             no == FALSE
  <2>3. p \in (DOMAIN w \ {}) \cup {None} /\ (IF p = None THEN None ELSE w[p]) = None
    OBVIOUS
  <2>4. Without(w, {}) = w
    BY NothingTaken
  <2>5. LET of == IF p = None THEN None ELSE w[p]
            V == View(Without(w, {}), t)
        IN  /\ k \in GuestHandle \ DOMAIN V
            /\ Mirrors(w, {}, Gives(t, j, Resource(kind, of, no, val)), k,
                       Gives(V, k, Resource(kind, p, no, val)))
    <3>1. k \in Numbers(w, {}, j) /\ Plain(val) /\ Wraps(Without(w, {}), t)
      BY <1>1, <2>2, <2>4
    <3> HIDE DEF p, no
    <3> QED BY <2>3, <3>1, GivesMirrors
  <2>6. /\ k \in GuestHandle \ DOMAIN S
        /\ Mirrors(w, {}, o, k, Gives(S, k, Resource(kind, None, FALSE, val)))
    BY <2>1, <2>4, <2>5
  <2>7. Gives(S, k, Resource(kind, None, FALSE, val)) \in Constructing(S, GuestHandle, kind)
    <3>1. Made(S, k, val) \in Constructing(S, GuestHandle, kind)
      <4> HIDE DEF S, Told, Made
      <4> QED BY <1>0, <2>6
    <3> QED BY <3>1
  <2> QED BY <2>6, <2>7
<1>4. \/ o \in Told(t)
      \/ \E j \in HostHandle \ DOMAIN t, val \in Fresh(kind) : o = Made(t, j, val)
  <2> HIDE DEF Told, Made
  <2> QED BY <1>0
<1>5. o \in Told(t) => \E e \in Unmade(kind) : o = Says(t, e, Nil)
  OBVIOUS
<1> HIDE DEF Told, Made
<1> QED BY <1>2, <1>3, <1>4, <1>5

LEMMA OperatingMirrors ==
  ASSUME NEW t, NEW w, WellFormed(t), Wraps(w, t), NEW g \in DOMAIN w,
         NEW o \in Operating(t, HostHandle, w[g]), NEW k \in Numbers(w, {}, o.new)
  PROVE  \E p \in Operating(View(w, t), GuestHandle, g) : Mirrors(w, {}, o, k, p)
<1> DEFINE S == View(w, t)
           vals == {[code |-> c] : c \in Codes} \cup {Nil}
           Made(x, j, val) ==
             [Gives(x, j, Resource("error", None, FALSE, val)) EXCEPT !.ret = "failed"]
<1>0. \A x, all, h : Operating(x, all, h) = {Says(x, "ok", Nil), Says(x, "closed", Nil)}
        \cup {Made(x, j, val) : j \in all \ DOMAIN x, val \in vals}
  BY DEF Operating
<1>1. Plain(Nil) /\ \A val \in vals : Plain(val)
  <2>1. \A c \in Codes : Plain([code |-> c])
    BY MessagesAssumption DEF Plain
  <2>2. Plain(Nil)
    BY DEF Plain, Nil
  <2> QED BY <2>1, <2>2
<1>2. CASE \E ret \in {"ok", "closed"} : o = Says(t, ret, Nil)
  <2>1. PICK ret \in {"ok", "closed"} : o = Says(t, ret, Nil)
    BY <1>2
  <2>2. k = None
    BY <2>1 DEF Says, Numbers
  <2>3. Says(S, ret, Nil) \in Operating(S, GuestHandle, g)
    <3> HIDE DEF S, Made, vals
    <3> QED BY <1>0
  <2> QED BY <1>1, <2>1, <2>2, <2>3, TellsMirrors
<1>3. CASE \E j \in HostHandle \ DOMAIN t, val \in vals :
             o = Made(t, j, val)
  <2>1. PICK j \in HostHandle \ DOMAIN t, val \in vals :
          o = Made(t, j, val)
    BY <1>3
  <2>2. o.new = j
    BY <2>1 DEF Gives
  <2> DEFINE p == None
             no == FALSE
  <2>3. p \in (DOMAIN w \ {}) \cup {None} /\ (IF p = None THEN None ELSE w[p]) = None
    OBVIOUS
  <2>4. Without(w, {}) = w
    BY NothingTaken
  <2>5. LET of == IF p = None THEN None ELSE w[p]
            V == View(Without(w, {}), t)
        IN  /\ k \in GuestHandle \ DOMAIN V
            /\ Mirrors(w, {}, Gives(t, j, Resource("error", of, no, val)), k,
                       Gives(V, k, Resource("error", p, no, val)))
    <3>1. k \in Numbers(w, {}, j) /\ Plain(val) /\ Wraps(Without(w, {}), t)
      BY <1>1, <2>2, <2>4
    <3> HIDE DEF p, no
    <3> QED BY <2>3, <3>1, GivesMirrors
  <2> DEFINE q == Resource("error", None, FALSE, val)
  <2>6. k \in GuestHandle \ DOMAIN S /\ Mirrors(w, {}, Gives(t, j, q), k, Gives(S, k, q))
    BY <2>4, <2>5
  <2>7. Mirrors(w, {}, o, k, [Gives(S, k, q) EXCEPT !.ret = "failed"])
    <3> HIDE DEF q, S
    <3> QED BY <2>1, <2>6, GivesMirrorsWith DEF q
  <2>8. [Gives(S, k, q) EXCEPT !.ret = "failed"] \in Operating(S, GuestHandle, g)
    <3>1. Made(S, k, val) \in Operating(S, GuestHandle, g)
      <4> HIDE DEF S, Made, vals
      <4> QED BY <1>0, <2>6
    <3> QED BY <3>1
  <2> QED BY <2>7, <2>8
<1>4. \/ \E ret \in {"ok", "closed"} : o = Says(t, ret, Nil)
      \/ \E j \in HostHandle \ DOMAIN t, val \in vals : o = Made(t, j, val)
  <2> HIDE DEF Made, vals
  <2> QED BY <1>0
<1> HIDE DEF Made, vals
<1> QED BY <1>2, <1>3, <1>4

LEMMA SettingMirrors ==
  ASSUME NEW t, NEW w, WellFormed(t), Wraps(w, t), NEW g \in DOMAIN w, NEW v,
         NEW o \in Setting(t, w[g], v), NEW k \in Numbers(w, {}, o.new)
  PROVE  \E p \in Setting(View(w, t), g, v) : Mirrors(w, {}, o, k, p)
<1> DEFINE S == View(w, t)
<1>1. S[g].fixed = t[w[g]].fixed
  <2>1. S[g] = [kind |-> t[w[g]].kind, of |-> Within(w, t[w[g]].of),
              taken |-> t[w[g]].taken, fixed |-> t[w[g]].fixed, val |-> t[w[g]].val]
    BY ViewAt
  <2> HIDE DEF S
  <2> QED BY <2>1
<1>2. Plain(Nil)
  BY DEF Plain, Nil
<1>3. ASSUME NEW ret, o = Says(t, ret, Nil), Says(S, ret, Nil) \in Setting(S, g, v)
      PROVE  \E p \in Setting(S, g, v) : Mirrors(w, {}, o, k, p)
  <2>1. k = None
    BY <1>3 DEF Says, Numbers
  <2> QED BY <1>2, <1>3, <2>1, TellsMirrors
<1>4. ASSUME o = Says([t EXCEPT ![w[g]].val.headers = v], "ok", Nil),
             Says([S EXCEPT ![g].val.headers = v], "ok", Nil) \in Setting(S, g, v)
      PROVE  \E p \in Setting(S, g, v) : Mirrors(w, {}, o, k, p)
  <2>1. k = None
    BY <1>4 DEF Says, Numbers
  <2>2. Mirrors(w, {}, Says([t EXCEPT ![w[g]].val["headers"] = v], "ok", Nil), None,
                Says([S EXCEPT ![g].val["headers"] = v], "ok", Nil))
    <3> DEFINE part == "headers"
    <3>1. part # "code" /\ (part = "method" => v = [variant |-> v.variant, payload |-> v.payload])
      OBVIOUS
    <3>2. Mirrors(w, {}, Says([t EXCEPT ![w[g]].val[part] = v], "ok", Nil), None,
                Says([S EXCEPT ![g].val[part] = v], "ok", Nil))
      <4> HIDE DEF part
      <4> QED BY <3>1, SetMirrors
    <3> QED BY <3>2
  <2> HIDE DEF S
  <2> QED BY <1>4, <2>1, <2>2
<1> HIDE DEF S
<1>5. \/ o = Says(t, "immutable", Nil) /\ Says(S, "immutable", Nil) \in Setting(S, g, v)
      \/ \E e \in HeaderErrors : o = Says(t, e, Nil) /\ Says(S, e, Nil) \in Setting(S, g, v)
      \/ /\ o = Says([t EXCEPT ![w[g]].val.headers = v], "ok", Nil)
         /\ Says([S EXCEPT ![g].val.headers = v], "ok", Nil) \in Setting(S, g, v)
  <2>1. CASE t[w[g]].fixed
    BY <1>1, <2>1 DEF Setting
  <2>2. CASE ~t[w[g]].fixed
    BY <1>1, <2>2 DEF Setting
  <2> QED BY <2>1, <2>2
<1> QED BY <1>3, <1>4, <1>5 DEF S

LEMMA AmendingMirrors ==
  ASSUME NEW t, NEW w, WellFormed(t), Wraps(w, t), NEW g \in DOMAIN w, NEW part, NEW x,
         part # "code",
         part = "method" => x = [variant |-> x.variant, payload |-> x.payload],
         NEW o \in Amending(t, w[g], part, x), NEW k \in Numbers(w, {}, o.new)
  PROVE  \E p \in Amending(View(w, t), g, part, x) : Mirrors(w, {}, o, k, p)
<1> DEFINE S == View(w, t)
<1>1. Plain(Nil)
  BY DEF Plain, Nil
<1>2. k = None
  BY DEF Amending, Says, Numbers
<1>3. Mirrors(w, {}, Says([t EXCEPT ![w[g]].val[part] = x], "ok", Nil), None,
              Says([S EXCEPT ![g].val[part] = x], "ok", Nil))
  BY SetMirrors
<1>4. Mirrors(w, {}, Says(t, "err", Nil), None, Says(S, "err", Nil))
  BY <1>1, TellsMirrors
<1> HIDE DEF S
<1> QED BY <1>2, <1>3, <1>4 DEF Amending, S

LEMMA TellingMirrors ==
  ASSUME NEW t, NEW w, WellFormed(t), Wraps(w, t), NEW g \in DOMAIN w
  PROVE  /\ \A o \in Reading(t, w[g]) : \A k \in Numbers(w, {}, o.new) :
              \E p \in Reading(View(w, t), g) : Mirrors(w, {}, o, k, p)
         /\ \A o \in Resolving(t) : \A k \in Numbers(w, {}, o.new) :
              \E p \in Resolving(View(w, t)) : Mirrors(w, {}, o, k, p)
         /\ \A o \in HttpErrorCode(t, w[g]) : \A k \in Numbers(w, {}, o.new) :
              \E p \in HttpErrorCode(View(w, t), g) : Mirrors(w, {}, o, k, p)
<1> DEFINE S == View(w, t)
<1>1. Plain(Nil)
  BY DEF Plain, Nil
<1>2. S[g].val = t[w[g]].val
  <2>1. S[g] = [kind |-> t[w[g]].kind, of |-> Within(w, t[w[g]].of),
              taken |-> t[w[g]].taken, fixed |-> t[w[g]].fixed, val |-> t[w[g]].val]
    BY ViewAt
  <2> HIDE DEF S
  <2> QED BY <2>1
<1>3. Plain(t[w[g]].val)
  BY DEF WellFormed, Wraps
<1>4. \A ret, val : \A k \in Numbers(w, {}, Says(t, ret, val).new) : k = None
  BY DEF Numbers, Says
<1>5. \A ret, val : Plain(val) =>
        \A k \in Numbers(w, {}, Says(t, ret, val).new) :
          Mirrors(w, {}, Says(t, ret, val), k, Says(S, ret, val))
  BY <1>4, TellsMirrors
<1> HIDE DEF S
<1>6. \A o \in Reading(t, w[g]) : \A k \in Numbers(w, {}, o.new) :
        \E p \in Reading(S, g) : Mirrors(w, {}, o, k, p)
  BY <1>2, <1>3, <1>5 DEF Reading
<1>7. \A o \in Resolving(t) : \A k \in Numbers(w, {}, o.new) :
        \E p \in Resolving(S) : Mirrors(w, {}, o, k, p)
  BY <1>1, <1>5 DEF Resolving
<1>8. \A o \in HttpErrorCode(t, w[g]) : \A k \in Numbers(w, {}, o.new) :
        \E p \in HttpErrorCode(S, g) : Mirrors(w, {}, o, k, p)
  <2>1. CASE t[w[g]].val = Nil
    BY <1>1, <1>2, <1>5, <2>1 DEF HttpErrorCode
  <2>2. CASE t[w[g]].val # Nil
    BY <1>2, <1>3, <1>5, <2>2 DEF HttpErrorCode
  <2> QED BY <2>1, <2>2
<1> QED BY <1>6, <1>7, <1>8 DEF S

LEMMA DroppingMirrors ==
  ASSUME NEW t, NEW w, WellFormed(t), Wraps(w, t), NEW g \in DOMAIN w,
         NEW o \in Dropping(t, w[g]), NEW k \in Numbers(w, {g}, o.new)
  PROVE  \E p \in Dropping(View(w, t), g) : Mirrors(w, {g}, o, k, p)
<1> DEFINE S == View(w, t)
           Sent(r) == IF r.kind = "outgoing-body"
                      THEN [sent |-> "aborted", val |-> Nil, with |-> Nil] ELSE Quiet
           last == Sent(t[w[g]])
<1>1. Plain(Nil)
  BY DEF Plain, Nil
<1>2. S[g].kind = t[w[g]].kind
  <2>1. S[g] = [kind |-> t[w[g]].kind, of |-> Within(w, t[w[g]].of),
              taken |-> t[w[g]].taken, fixed |-> t[w[g]].fixed, val |-> t[w[g]].val]
    BY ViewAt
  <2> HIDE DEF S
  <2> QED BY <2>1
<1>3. Children(S, g) = {} <=> Children(t, w[g]) = {}
  BY SameChildren
<1>4. \A x, h : Dropping(x, h) =
        IF Children(x, h) # {} THEN {Trap(x)}
        ELSE {[Says(Without(x, {h}), "ok", Nil) EXCEPT !.wire = Sent(x[h])]}
  BY DEF Dropping
<1>5. CASE Children(t, w[g]) # {}
  <2>1. o = Trap(t) /\ Trap(S) \in Dropping(S, g)
    BY <1>3, <1>4, <1>5
  <2>2. k \in Numbers(w, {g}, None)
    BY <2>1 DEF Trap, Says
  <2> QED BY <2>1, <2>2, TrapMirrors
<1>6. CASE Children(t, w[g]) = {}
  <2> DEFINE rest == Without(t, {w[g]})
  <2>1. Sent(S[g]) = last
    <3> HIDE DEF S
    <3> QED BY <1>2
  <2> HIDE DEF Sent
  <2>2. /\ o = [Says(rest, "ok", Nil) EXCEPT !.wire = last]
        /\ [Says(Without(S, {g}), "ok", Nil) EXCEPT !.wire = last] \in Dropping(S, g)
    BY <1>3, <1>4, <1>6, <2>1
  <2>3. /\ WellFormed(rest) /\ Wraps(Without(w, {g}), rest)
        /\ View(Without(w, {g}), rest) = Without(S, {g})
    <3> DEFINE gone == {g}
    <3>1. gone \in SUBSET DOMAIN w /\ {w[i] : i \in gone} = {w[g]}
      OBVIOUS
    <3>2. \A i \in gone : Children(t, w[i]) = {}
      BY <1>6
    <3>3. LET u == Without(t, {w[i] : i \in gone})
          IN  /\ WellFormed(u) /\ Wraps(Without(w, gone), u)
              /\ View(Without(w, gone), u) = Without(View(w, t), gone)
      <4> HIDE DEF gone
      <4> QED BY <3>1, <3>2, ViewOfRemoved
    <3> QED BY <3>1, <3>3
  <2>4. k \in Numbers(w, {g}, None)
    BY <2>2 DEF Says
  <2> HIDE DEF rest, S, last
  <2>5. Mirrors(w, {g}, o, k, [Says(Without(S, {g}), "ok", Nil) EXCEPT !.wire = last])
    BY <1>1, <2>2, <2>3, <2>4, SaysMirrorsWith
  <2> QED BY <2>2, <2>5 DEF S
<1> QED BY <1>5, <1>6

(***************************************************************************)
(* The calls of Direct are those of HttpResources.                         *)
(***************************************************************************)
LEMMA SameBasics ==
  /\ Direct!Nil = Nil /\ Direct!GET = GET /\ Direct!OK = OK /\ Direct!Quiet = Quiet
  /\ Direct!Makes = Makes /\ Direct!Eats = Eats /\ Direct!HeaderErrors = HeaderErrors
  /\ \A kind : Direct!Fresh(kind) = Fresh(kind) /\ Direct!Unmade(kind) = Unmade(kind)
  /\ \A kind, of, fixed, val : Direct!Resource(kind, of, fixed, val) = Resource(kind, of, fixed, val)
  /\ \A t, h : Direct!Children(t, h) = Children(t, h) /\ Direct!Without(t, h) = Without(t, h)
  /\ \A t, h, r : Direct!Gives(t, h, r) = Gives(t, h, r)
  /\ \A t, ret, val : Direct!Says(t, ret, val) = Says(t, ret, val)
  /\ \A t : Direct!Trap(t) = Trap(t) /\ Direct!Failures(t) = Failures(t)
  /\ \A t, op, h : Direct!Data(t, op, h) = Data(t, op, h)
<1>1. /\ Direct!Nil = Nil /\ Direct!HeaderErrors = HeaderErrors
      /\ Direct!Makes = Makes /\ Direct!Eats = Eats
  BY DEF Direct!Nil, Nil, Direct!HeaderErrors, HeaderErrors, Direct!Makes, Makes,
         Direct!Eats, Eats
<1>2. Direct!GET = GET /\ Direct!OK = OK
  BY DEF Direct!GET, GET, Direct!OK, OK
<1>3. Direct!Quiet = Quiet
  BY <1>1 DEF Direct!Quiet, Quiet
<1>4. \A kind : Direct!Fresh(kind) = Fresh(kind) /\ Direct!Unmade(kind) = Unmade(kind)
  BY <1>1 DEF Direct!Fresh, Fresh, Direct!Unmade, Unmade
<1>5. /\ \A kind, of, fixed, val :
           Direct!Resource(kind, of, fixed, val) = Resource(kind, of, fixed, val)
      /\ \A t, h : Direct!Children(t, h) = Children(t, h)
      /\ \A t, h : Direct!Without(t, h) = Without(t, h)
      /\ \A t, h, r : Direct!With(t, h, r) = With(t, h, r)
  BY DEF Direct!Resource, Resource, Direct!Children, Children, Direct!Without, Without,
         Direct!With, With
<1>6. /\ \A t, h, r : Direct!Gives(t, h, r) = Gives(t, h, r)
      /\ \A t, ret, val : Direct!Says(t, ret, val) = Says(t, ret, val)
  BY <1>1, <1>3, <1>5 DEF Direct!Gives, Gives, Direct!Says, Says
<1>7. \A t : Direct!Trap(t) = Trap(t) /\ Direct!Failures(t) = Failures(t)
  BY <1>1, <1>6 DEF Direct!Trap, Trap, Direct!Failures, Failures
<1>8. \A t, op, h : Direct!Data(t, op, h) = Data(t, op, h)
  BY <1>1 DEF Direct!Data, Data
<1> QED BY <1>1, <1>2, <1>3, <1>4, <1>5, <1>6, <1>7, <1>8

\* The instance has the same calls.
LEMMA SameCalls ==
  /\ \A t, all, kind : Direct!Constructing(t, all, kind) = Constructing(t, all, kind)
  /\ \A t, all, op, h : Direct!Making(t, all, op, h) = Making(t, all, op, h)
  /\ \A t, op : Direct!Arguments(t, op) = Arguments(t, op)
  /\ \A t, all, op, args : Direct!Eating(t, all, op, args) = Eating(t, all, op, args)
  /\ \A t, h, v : Direct!Setting(t, h, v) = Setting(t, h, v)
  /\ \A t, h, part, v : Direct!Amending(t, h, part, v) = Amending(t, h, part, v)
  /\ \A t, h : Direct!Reading(t, h) = Reading(t, h)
  /\ \A t, all, h : Direct!Operating(t, all, h) = Operating(t, all, h)
  /\ \A t : Direct!Resolving(t) = Resolving(t)
  /\ \A t, h : Direct!HttpErrorCode(t, h) = HttpErrorCode(t, h)
  /\ \A t, h : Direct!Dropping(t, h) = Dropping(t, h)
<1>0. /\ \A t, k, kind, of, fixed, val :
           Direct!Gives(t, k, Direct!Resource(kind, of, fixed, val)) =
           Gives(t, k, Resource(kind, of, fixed, val))
      /\ \A t, ret : Direct!Says(t, ret, Direct!Nil) = Says(t, ret, Nil)
  BY SameBasics
<1>1. ASSUME NEW t, NEW all, NEW kind
      PROVE  Direct!Constructing(t, all, kind) = Constructing(t, all, kind)
  <2> DEFINE no == FALSE
             A == {Direct!Gives(t, k, Direct!Resource(kind, None, no, val)) :
                     k \in all \ DOMAIN t, val \in Direct!Fresh(kind)}
             B == {Gives(t, k, Resource(kind, None, no, val)) :
                     k \in all \ DOMAIN t, val \in Fresh(kind)}
             C == {Direct!Says(t, e, Direct!Nil) : e \in Direct!Unmade(kind)}
             D == {Says(t, e, Nil) : e \in Unmade(kind)}
  <2>1. A = B
    <3>1. Direct!Fresh(kind) = Fresh(kind)
      BY SameBasics
    <3> HIDE DEF no
    <3> QED BY <1>0, <3>1
  <2>2. C = D
    BY SameBasics
  <2>3. Direct!Constructing(t, all, kind) = A \cup C
    BY DEF Direct!Constructing
  <2>4. Constructing(t, all, kind) = B \cup D
    BY DEF Constructing
  <2> HIDE DEF A, B, C, D
  <2> QED BY <2>1, <2>2, <2>3, <2>4
<1>2. ASSUME NEW t, NEW all, NEW op, NEW h
      PROVE  Direct!Making(t, all, op, h) = Making(t, all, op, h)
  <2> DEFINE row == Makes[op]
             used == IF row.once THEN [t EXCEPT ![h].taken = TRUE] ELSE t
             of == IF row.child THEN h ELSE None
             fixed == row.child /\ row.to = "fields"
             A == {Direct!Gives(used, k, Direct!Resource(row.to, of, fixed, val)) :
                     k \in all \ DOMAIN t, val \in Direct!Data(t, op, h)}
             B == {Gives(used, k, Resource(row.to, of, fixed, val)) :
                     k \in all \ DOMAIN t, val \in Data(t, op, h)}
  <2>1. A = B
    <3>1. Direct!Data(t, op, h) = Data(t, op, h)
      BY SameBasics
    <3> HIDE DEF fixed, of, used, row
    <3> QED BY <1>0, <3>1
  <2>2. Direct!Makes[op] = row
    BY SameBasics
  <2>3. Direct!Making(t, all, op, h) =
          IF row.once /\ t[h].taken THEN {Direct!Says(t, "err", Direct!Nil)}
          ELSE A \cup (IF row.late
                       THEN {Direct!Says(t, "none", Direct!Nil)} \cup Direct!Failures(used)
                       ELSE {})
    <3>1. Direct!Makes = Makes
      BY SameBasics
    <3> QED BY <3>1 DEF Direct!Making
  <2>4. Making(t, all, op, h) =
          IF row.once /\ t[h].taken THEN {Says(t, "err", Nil)}
          ELSE B \cup (IF row.late THEN {Says(t, "none", Nil)} \cup Failures(used) ELSE {})
    BY DEF Making
  <2>5. Direct!Failures(used) = Failures(used)
    BY SameBasics
  <2> HIDE DEF A, B, used, row
  <2> QED BY <1>0, <2>1, <2>3, <2>4, <2>5
<1>3. \A t, op : Direct!Arguments(t, op) = Arguments(t, op)
  BY SameBasics DEF Direct!Arguments, Arguments
<1>4. ASSUME NEW t, NEW all, NEW op, NEW args
      PROVE  Direct!Eating(t, all, op, args) = Eating(t, all, op, args)
  <2> DEFINE given == {args[i] : i \in DOMAIN args}
             Val(row, get, ok, nil) == CASE row.to = "outgoing-request" ->
                         [headers |-> t[args[1]].val.headers, method |-> get]
                    [] row.to = "outgoing-response" ->
                         [headers |-> t[args[1]].val.headers, status |-> ok]
                    [] OTHER -> nil
             Message(row, nil, quiet) == IF row.fails
                      THEN [sent |-> op, val |-> t[args[1]].val,
                            with |-> IF Len(args) = 2 THEN t[args[2]].val ELSE nil]
                      ELSE quiet
             Sent(os, x) == {[d EXCEPT !.wire = x] : d \in os}
             no == FALSE
             A(row, rest, val) == {Direct!Gives(rest, k, Direct!Resource(row.to, None, no, val)) :
                     k \in all \ DOMAIN rest}
             B(row, rest, val) == {Gives(rest, k, Resource(row.to, None, no, val)) :
                     k \in all \ DOMAIN rest}
  <2>1. Direct!Eating(t, all, op, args) =
          IF \E h \in given : Direct!Children(t, h) # {} THEN {Direct!Trap(t)}
          ELSE Sent(IF Direct!Eats[op].to = "" THEN {Direct!Says(Direct!Without(t, given), "ok", Direct!Nil)}
                    ELSE A(Direct!Eats[op], Direct!Without(t, given),
                           Val(Direct!Eats[op], Direct!GET, Direct!OK, Direct!Nil)),
                    Message(Direct!Eats[op], Direct!Nil, Direct!Quiet))
               \cup (IF Direct!Eats[op].fails THEN Direct!Failures(Direct!Without(t, given)) ELSE {})
    BY Zenon DEF Direct!Eating
  <2>2. Eating(t, all, op, args) =
          IF \E h \in given : Children(t, h) # {} THEN {Trap(t)}
          ELSE Sent(IF Eats[op].to = "" THEN {Says(Without(t, given), "ok", Nil)}
                    ELSE B(Eats[op], Without(t, given), Val(Eats[op], GET, OK, Nil)),
                    Message(Eats[op], Nil, Quiet))
               \cup (IF Eats[op].fails THEN Failures(Without(t, given)) ELSE {})
    BY Zenon DEF Eating
  <2>3. \A row, rest, val : A(row, rest, val) = B(row, rest, val)
    <3> HIDE DEF no
    <3> QED BY <1>0
  <2>4. /\ Direct!Eats = Eats /\ Direct!GET = GET /\ Direct!OK = OK /\ Direct!Nil = Nil
        /\ Direct!Quiet = Quiet /\ Direct!Trap(t) = Trap(t)
        /\ Direct!Without(t, given) = Without(t, given)
        /\ Direct!Failures(Without(t, given)) = Failures(Without(t, given))
        /\ Direct!Says(Without(t, given), "ok", Nil) = Says(Without(t, given), "ok", Nil)
        /\ \A h : Direct!Children(t, h) = Children(t, h)
    BY SameBasics
  <2> HIDE DEF A, B, Val, Message, Sent, given
  <2> QED BY <2>1, <2>2, <2>3, <2>4
<1>5. /\ \A t, h, v : Direct!Setting(t, h, v) = Setting(t, h, v)
      /\ \A t, h, part, v : Direct!Amending(t, h, part, v) = Amending(t, h, part, v)
      /\ \A t, h : Direct!Reading(t, h) = Reading(t, h)
  BY SameBasics DEF Direct!Setting, Setting, Direct!Amending, Amending, Direct!Reading, Reading
<1>6. ASSUME NEW t, NEW all, NEW h
      PROVE  Direct!Operating(t, all, h) = Operating(t, all, h)
  <2> DEFINE no == FALSE
             vals == {[code |-> c] : c \in Codes}
             A == {[Direct!Gives(t, k, Direct!Resource("error", None, no, val)) EXCEPT !.ret = "failed"] :
                     k \in all \ DOMAIN t, val \in vals \cup {Direct!Nil}}
             B == {[Gives(t, k, Resource("error", None, no, val)) EXCEPT !.ret = "failed"] :
                     k \in all \ DOMAIN t, val \in vals \cup {Nil}}
  <2>1. A = B
    <3>1. Direct!Nil = Nil
      BY SameBasics
    <3> HIDE DEF no, vals
    <3> QED BY <1>0, <3>1
  <2>2. Direct!Operating(t, all, h) =
          {Direct!Says(t, "ok", Direct!Nil), Direct!Says(t, "closed", Direct!Nil)} \cup A
    BY DEF Direct!Operating
  <2>3. Operating(t, all, h) = {Says(t, "ok", Nil), Says(t, "closed", Nil)} \cup B
    BY DEF Operating
  <2> HIDE DEF A, B
  <2> QED BY <1>0, <2>1, <2>2, <2>3
<1>7. /\ \A t : Direct!Resolving(t) = Resolving(t)
      /\ \A t, h : Direct!HttpErrorCode(t, h) = HttpErrorCode(t, h)
      /\ \A t, h : Direct!Dropping(t, h) = Dropping(t, h)
  BY SameBasics DEF Direct!Resolving, Resolving, Direct!HttpErrorCode, HttpErrorCode,
                    Direct!Dropping, Dropping
<1> QED BY <1>1, <1>2, <1>3, <1>4, <1>5, <1>6, <1>7

(***************************************************************************)
(* The steps.                                                              *)
(***************************************************************************)
\* The inductive invariant: resources are records whose parents live, and each is
\* within one wrapper of the guest.
Inv == WellFormed(host) /\ Wraps(wrapped, host)

\* The renaming of the variants of enums loses nothing.
LEMMA NothingRenamed ==
  /\ \A ret : RenamedRet(ret) = ret
  /\ \A val : Plain(val) => Renamed(val) = val
<1>1. \A ret : RenamedRet(ret) = ret
  BY DEF RenamedRet, HeaderErrors, header_err_map_rev
<1>2. ASSUME NEW val, Plain(val) PROVE Renamed(val) = val
  <2>1. CASE "code" \in DOMAIN val
    BY <1>2, <2>1 DEF Renamed, Plain, http_err_map_rev
  <2>2. CASE "code" \notin DOMAIN val /\ "method" \in DOMAIN val
    <3>1. method_map_rev(val.method) = val.method
      BY <1>2, <2>2 DEF Plain, method_map_rev
    <3>2. Renamed(val) = [val EXCEPT !.method = method_map_rev(val.method)]
      BY <2>2 DEF Renamed
    <3>3. val = [part \in DOMAIN val |-> val[part]]
      BY <1>2 DEF Plain
    <3> QED BY <2>2, <3>1, <3>2, <3>3
  <2>3. CASE "code" \notin DOMAIN val /\ "method" \notin DOMAIN val
    BY <2>3 DEF Renamed
  <2> QED BY <2>1, <2>2, <2>3
<1> QED BY <1>1, <1>2

\* A call each of whose outcomes has its mirror is a call of the host.
LEMMA ComesMirrors ==
  ASSUME Inv, NEW outcomes, NEW direct, NEW given \in SUBSET DOMAIN wrapped,
         Comes(outcomes, given),
         \A o \in outcomes : \A k \in Numbers(wrapped, given, o.new) :
           \E p \in direct : Mirrors(wrapped, given, o, k, p)
  PROVE  Inv' /\ Direct!Comes(direct)
<1>0. PICK o \in outcomes : \E g \in Free(given, o.new) :
        /\ host' = o.own
        /\ wrapped' = IF o.trap THEN wrapped ELSE Rewrapped(given, o.new, g)
        /\ answer' = [ret |-> RenamedRet(o.ret), val |-> Renamed(o.val), new |-> g]
        /\ wire' = o.wire
        /\ trapped' = o.trap
  BY Zenon DEF Comes
<1>1. PICK g \in Free(given, o.new) :
        /\ host' = o.own
        /\ wrapped' = IF o.trap THEN wrapped ELSE Rewrapped(given, o.new, g)
        /\ answer' = [ret |-> RenamedRet(o.ret), val |-> Renamed(o.val), new |-> g]
        /\ wire' = o.wire
        /\ trapped' = o.trap
  BY <1>0
<1>2. g \in Numbers(wrapped, given, o.new)
  BY DEF Free, Numbers
<1>3. PICK p \in direct : Mirrors(wrapped, given, o, g, p)
  BY <1>2
<1>4. wrapped' = IF o.trap THEN wrapped ELSE Wrapping(wrapped, given, o.new, g)
  BY <1>1 DEF Rewrapped, Wrapping
<1>5. /\ WellFormed(host') /\ Wraps(wrapped', host') /\ p.own = View(wrapped', host')
      /\ answer' = [ret |-> p.ret, val |-> p.val, new |-> p.new]
      /\ wire' = p.wire /\ trapped' = p.trap
  BY <1>1, <1>3, <1>4, NothingRenamed, Zenon DEF Mirrors
<1>6. Seen' = View(wrapped', host')
  BY DEF Seen, View, Within, Around
<1>7. Inv'
  BY <1>5 DEF Inv, WellFormed, Wraps
<1>8. Direct!Comes(direct)
  BY <1>5, <1>6 DEF Direct!Comes
<1> QED BY <1>7, <1>8

LEMMA NewDirect ==
  ASSUME Inv, NEW kind \in {"fields", "request-options", "resolve-address-stream"}, New(kind)
  PROVE  Inv' /\ Direct!Comes(Direct!Constructing(Seen, GuestHandle, kind))
<1>1. \A o \in Constructing(host, HostHandle, kind) : \A k \in Numbers(wrapped, {}, o.new) :
        \E p \in Constructing(Seen, GuestHandle, kind) : Mirrors(wrapped, {}, o, k, p)
  BY ConstructingMirrors, SeenIsView DEF Inv
<1> QED BY <1>1, ComesMirrors, SameCalls DEF New

LEMMA ForwardDirect ==
  ASSUME Inv, NEW op, NEW g \in DOMAIN wrapped, Forward(op, g)
  PROVE  Inv' /\ Direct!Comes(Direct!Making(Seen, GuestHandle, op, g))
<1>1. \A o \in Making(host, HostHandle, op, wrapped[g]) : \A k \in Numbers(wrapped, {}, o.new) :
        \E p \in Making(Seen, GuestHandle, op, g) : Mirrors(wrapped, {}, o, k, p)
  BY MakingMirrors, SeenIsView DEF Inv
<1> QED BY <1>1, ComesMirrors, SameCalls DEF Forward

\* The guest holds resources of the same kinds.
LEMMA OfSame ==
  ASSUME Inv
  PROVE  /\ DOMAIN Seen = DOMAIN wrapped
         /\ \A g \in DOMAIN wrapped : Seen[g].kind = host[wrapped[g]].kind
         /\ \A kinds : Direct!Of(kinds) = Of(kinds)
         /\ \A op : Given(op) = Direct!Arguments(Seen, op)
<1>1. ASSUME NEW g \in DOMAIN wrapped PROVE Seen[g].kind = host[wrapped[g]].kind
  <2>1. View(wrapped, host)[g] = [kind |-> host[wrapped[g]].kind,
           of |-> Within(wrapped, host[wrapped[g]].of), taken |-> host[wrapped[g]].taken,
           fixed |-> host[wrapped[g]].fixed, val |-> host[wrapped[g]].val]
    BY ViewAt DEF Inv
  <2> QED BY <2>1, SeenIsView
<1>2. DOMAIN Seen = DOMAIN wrapped
  BY DEF Seen
<1>3. \A kinds : Direct!Of(kinds) = Of(kinds)
  BY <1>1, <1>2 DEF Direct!Of, Of
<1>4. ASSUME NEW op PROVE Given(op) = Arguments(Seen, op)
  <2> DEFINE seen == [g \in DOMAIN wrapped |-> host[wrapped[g]]]
             row == Eats[op]
             all == UNION {[1..n -> DOMAIN wrapped] : n \in row.least..Len(row.eats)}
             Fit(t, args) == /\ \A i \in DOMAIN args : t[args[i]].kind = row.eats[i]
                             /\ \A i, j \in DOMAIN args : args[i] = args[j] => i = j
  <2>1. /\ Given(op) = {args \in all : Fit(seen, args)}
        /\ Arguments(Seen, op) = {args \in all : Fit(Seen, args)}
    <3>1. DOMAIN seen = DOMAIN wrapped
      OBVIOUS
    <3>2. Given(op) = Arguments(seen, op)
      BY DEF Given
    <3> HIDE DEF seen
    <3> QED BY <1>2, <3>1, <3>2 DEF Arguments
  <2>2. ASSUME NEW args \in all PROVE Fit(seen, args) <=> Fit(Seen, args)
    <3>1. \A i \in DOMAIN args : args[i] \in DOMAIN wrapped
      OBVIOUS
    <3>2. \A i \in DOMAIN args : seen[args[i]].kind = Seen[args[i]].kind
      BY <1>1, <3>1
    <3> HIDE DEF seen, row, all
    <3> QED BY <3>2
  <2> HIDE DEF all, Fit
  <2> QED BY <2>1, <2>2
<1> QED BY <1>1, <1>2, <1>3, <1>4, SameCalls

LEMMA IntoInnerDirect ==
  ASSUME Inv, NEW op \in Eaters, NEW gs \in Given(op), IntoInner(op, gs)
  PROVE  /\ Inv' /\ gs \in Direct!Arguments(Seen, op)
         /\ Direct!Comes(Direct!Eating(Seen, GuestHandle, op, gs))
<1> DEFINE within == [i \in DOMAIN gs |-> wrapped[gs[i]]]
           given == {gs[i] : i \in DOMAIN gs}
<1>1. gs \in Arguments(Seen, op) /\ gs \in Direct!Arguments(Seen, op)
  BY OfSame, SameCalls
<1>2. given \in SUBSET DOMAIN wrapped
  BY DEF Given, Arguments
<1>3. \A o \in Eating(host, HostHandle, op, within) : \A k \in Numbers(wrapped, given, o.new) :
        \E p \in Eating(Seen, GuestHandle, op, gs) : Mirrors(wrapped, given, o, k, p)
  BY <1>1, EatingMirrors, SeenIsView DEF Inv
<1>4. Comes(Eating(host, HostHandle, op, within), given)
  BY DEF IntoInner
<1> HIDE DEF within, given
<1> QED BY <1>1, <1>2, <1>3, <1>4, ComesMirrors, SameCalls

LEMMA DropDirect ==
  ASSUME Inv, NEW g \in DOMAIN wrapped, Comes(Dropping(host, wrapped[g]), {g})
  PROVE  Inv' /\ Direct!Comes(Direct!Dropping(Seen, g))
<1>1. \A o \in Dropping(host, wrapped[g]) : \A k \in Numbers(wrapped, {g}, o.new) :
        \E p \in Dropping(Seen, g) : Mirrors(wrapped, {g}, o, k, p)
  BY DroppingMirrors, SeenIsView DEF Inv
<1> QED BY <1>1, ComesMirrors, SameCalls

LEMMA OperatingDirect ==
  ASSUME Inv, NEW g \in DOMAIN wrapped, Comes(Operating(host, HostHandle, wrapped[g]), {})
  PROVE  Inv' /\ Direct!Comes(Direct!Operating(Seen, GuestHandle, g))
<1>1. \A o \in Operating(host, HostHandle, wrapped[g]) : \A k \in Numbers(wrapped, {}, o.new) :
        \E p \in Operating(Seen, GuestHandle, g) : Mirrors(wrapped, {}, o, k, p)
  BY OperatingMirrors, SeenIsView DEF Inv
<1> QED BY <1>1, ComesMirrors, SameCalls

LEMMA SettingDirect ==
  ASSUME Inv, NEW g \in DOMAIN wrapped, NEW v, Comes(Setting(host, wrapped[g], v), {})
  PROVE  Inv' /\ Direct!Comes(Direct!Setting(Seen, g, v))
<1>1. \A o \in Setting(host, wrapped[g], v) : \A k \in Numbers(wrapped, {}, o.new) :
        \E p \in Setting(Seen, g, v) : Mirrors(wrapped, {}, o, k, p)
  BY SettingMirrors, SeenIsView DEF Inv
<1> QED BY <1>1, ComesMirrors, SameCalls

LEMMA AmendingDirect ==
  ASSUME Inv, NEW g \in DOMAIN wrapped, NEW part, part # "code", NEW v,
         part = "method" => v = [variant |-> v.variant, payload |-> v.payload],
         Comes(Amending(host, wrapped[g], part, v), {})
  PROVE  Inv' /\ Direct!Comes(Direct!Amending(Seen, g, part, v))
<1>1. \A o \in Amending(host, wrapped[g], part, v) : \A k \in Numbers(wrapped, {}, o.new) :
        \E p \in Amending(Seen, g, part, v) : Mirrors(wrapped, {}, o, k, p)
  BY AmendingMirrors, SeenIsView DEF Inv
<1> QED BY <1>1, ComesMirrors, SameCalls

LEMMA TellingDirect ==
  ASSUME Inv, NEW g \in DOMAIN wrapped
  PROVE  /\ Comes(Reading(host, wrapped[g]), {}) =>
              Inv' /\ Direct!Comes(Direct!Reading(Seen, g))
         /\ Comes(Resolving(host), {}) => Inv' /\ Direct!Comes(Direct!Resolving(Seen))
         /\ Comes(HttpErrorCode(host, wrapped[g]), {}) =>
              Inv' /\ Direct!Comes(Direct!HttpErrorCode(Seen, g))
<1>1. \A o \in Reading(host, wrapped[g]) : \A k \in Numbers(wrapped, {}, o.new) :
        \E p \in Reading(Seen, g) : Mirrors(wrapped, {}, o, k, p)
  BY TellingMirrors, SeenIsView DEF Inv
<1>2. \A o \in Resolving(host) : \A k \in Numbers(wrapped, {}, o.new) :
        \E p \in Resolving(Seen) : Mirrors(wrapped, {}, o, k, p)
  BY TellingMirrors, SeenIsView DEF Inv
<1>3. \A o \in HttpErrorCode(host, wrapped[g]) : \A k \in Numbers(wrapped, {}, o.new) :
        \E p \in HttpErrorCode(Seen, g) : Mirrors(wrapped, {}, o, k, p)
  BY TellingMirrors, SeenIsView DEF Inv
<1>4. Comes(Reading(host, wrapped[g]), {}) =>
        Inv' /\ Direct!Comes(Direct!Reading(Seen, g))
  BY <1>1, ComesMirrors, SameCalls
<1>5. Comes(Resolving(host), {}) => Inv' /\ Direct!Comes(Direct!Resolving(Seen))
  BY <1>2, ComesMirrors, SameCalls
<1>6. Comes(HttpErrorCode(host, wrapped[g]), {}) =>
        Inv' /\ Direct!Comes(Direct!HttpErrorCode(Seen, g))
  BY <1>3, ComesMirrors, SameCalls
<1> QED BY <1>4, <1>5, <1>6

\* The calls a component can make of the host itself.
LEMMA DirectCalls ==
  ASSUME Inv
  PROVE  /\ \A kind \in {"fields", "request-options", "resolve-address-stream"} :
              Direct!Comes(Direct!Constructing(Seen, GuestHandle, kind)) => Direct!Call
         /\ \A op \in DOMAIN Makes : \A g \in Of(Makes[op].from) :
              Direct!Comes(Direct!Making(Seen, GuestHandle, op, g)) => Direct!Call
         /\ \A op \in Eaters : \A gs \in Direct!Arguments(Seen, op) :
              Direct!Comes(Direct!Eating(Seen, GuestHandle, op, gs)) => Direct!Call
         /\ \A g \in DOMAIN wrapped : Direct!Comes(Direct!Dropping(Seen, g)) => Direct!Call
<1>1. Direct!Makes = Makes /\ Direct!Eats = Eats /\ DOMAIN Seen = DOMAIN wrapped
  BY SameBasics, OfSame
<1>2. Eaters \subseteq DOMAIN Eats
  BY DEF Eaters, Eats
<1>3. \A kind \in {"fields", "request-options", "resolve-address-stream"} :
        Direct!Comes(Direct!Constructing(Seen, GuestHandle, kind)) => Direct!Call
  BY DEF Direct!Call
<1>4. \A op \in DOMAIN Makes : \A g \in Of(Makes[op].from) :
        Direct!Comes(Direct!Making(Seen, GuestHandle, op, g)) => Direct!Call
  BY <1>1, OfSame DEF Direct!Call
<1>5. \A op \in Eaters : \A gs \in Direct!Arguments(Seen, op) :
        Direct!Comes(Direct!Eating(Seen, GuestHandle, op, gs)) => Direct!Call
  BY <1>1, <1>2 DEF Direct!Call
<1>6. \A g \in DOMAIN wrapped : Direct!Comes(Direct!Dropping(Seen, g)) => Direct!Call
  BY <1>1 DEF Direct!Call
<1> QED BY <1>3, <1>4, <1>5, <1>6

\* And those that only look at a resource, or set a part of it.
LEMMA DirectAccess ==
  ASSUME Inv
  PROVE  /\ \A g \in Of({"fields"}), v \in Values :
              Direct!Comes(Direct!Setting(Seen, g, v)) => Direct!Call
         /\ \A g \in Of({"request-options"}), v \in Values :
              Direct!Comes(Direct!Amending(Seen, g, "timeout", v)) => Direct!Call
         /\ \A g \in Of({"outgoing-request"}), m \in Methods :
              Direct!Comes(Direct!Amending(Seen, g, "method", m)) => Direct!Call
         /\ \A g \in Of({"outgoing-response"}), v \in Values :
              Direct!Comes(Direct!Amending(Seen, g, "status", v)) => Direct!Call
         /\ \A g \in Of({"fields", "outgoing-request", "request-options",
                         "incoming-response", "outgoing-response"}) :
              Direct!Comes(Direct!Reading(Seen, g)) => Direct!Call
         /\ \A g \in Of({"input-stream", "output-stream"}) :
              Direct!Comes(Direct!Operating(Seen, GuestHandle, g)) => Direct!Call
         /\ \A g \in Of({"resolve-address-stream"}) :
              Direct!Comes(Direct!Resolving(Seen)) => Direct!Call
         /\ \A g \in Of({"error"}) :
              Direct!Comes(Direct!HttpErrorCode(Seen, g)) => Direct!Call
BY OfSame DEF Direct!Call

LEMMA NewStep ==
  ASSUME Inv, NEW kind \in {"fields", "request-options", "resolve-address-stream"}, New(kind)
  PROVE  Inv' /\ Direct!Call
BY NewDirect, DirectCalls

LEMMA ForwardStep ==
  ASSUME Inv, NEW op \in DOMAIN Makes, NEW g \in Of(Makes[op].from), Forward(op, g)
  PROVE  Inv' /\ Direct!Call
<1>1. g \in DOMAIN wrapped
  BY DEF Of
<1> QED BY <1>1, ForwardDirect, DirectCalls

LEMMA IntoInnerStep ==
  ASSUME Inv, NEW op \in Eaters, NEW gs \in Given(op), IntoInner(op, gs)
  PROVE  Inv' /\ Direct!Call
BY IntoInnerDirect, DirectCalls

LEMMA ReadingStep ==
  ASSUME Inv, NEW g \in Of({"fields", "outgoing-request", "request-options",
                            "incoming-response", "outgoing-response"}),
         Comes(Reading(host, wrapped[g]), {})
  PROVE  Inv' /\ Direct!Call
<1>1. g \in DOMAIN wrapped
  BY DEF Of
<1> QED BY <1>1, TellingDirect, DirectAccess

\* Which method is of what.
LEMMA MakesFrom ==
  /\ {"clone", "headers", "body", "consume", "write", "stream", "subscribe",
      "get_response", "get_trailers"} \subseteq DOMAIN Makes
  /\ Makes["clone"].from = {"fields"}
  /\ Makes["headers"].from =
       {"outgoing-request", "outgoing-response", "incoming-response"}
  /\ Makes["body"].from = {"outgoing-request", "outgoing-response"}
  /\ Makes["consume"].from = {"incoming-response"}
  /\ Makes["write"].from = {"outgoing-body"}
  /\ Makes["stream"].from = {"incoming-body"}
  /\ Makes["subscribe"].from = {"future-trailers", "future-incoming-response",
       "input-stream", "output-stream", "resolve-address-stream"}
  /\ Makes["get_response"].from = {"future-incoming-response"}
  /\ Makes["get_trailers"].from = {"future-trailers"}
BY DEF Makes

\* A resource of one kind is of one of several.
LEMMA KindsOf ==
  ASSUME NEW kinds, NEW g \in Of(kinds)
  PROVE  /\ g \in DOMAIN wrapped
         /\ \A more : kinds \subseteq more => g \in Of(more)
BY DEF Of

\* The calls that set a part of a resource.
LEMMA SetsStep ==
  ASSUME Inv
  PROVE  /\ \A g \in Of({"fields"}), v \in Values :
              Comes(Setting(host, wrapped[g], v), {}) => Inv' /\ Direct!Call
         /\ \A g \in Of({"request-options"}), v \in Values :
              Comes(Amending(host, wrapped[g], "timeout", v), {}) => Inv' /\ Direct!Call
         /\ \A g \in Of({"outgoing-request"}), m \in Methods :
              Comes(Amending(host, wrapped[g], "method", method_map(m)), {}) =>
              Inv' /\ Direct!Call
         /\ \A g \in Of({"outgoing-response"}), v \in Values :
              Comes(Amending(host, wrapped[g], "status", v), {}) => Inv' /\ Direct!Call
<1>1. ASSUME NEW g \in Of({"fields"}), NEW v \in Values,
             Comes(Setting(host, wrapped[g], v), {})
      PROVE  Inv' /\ Direct!Call
  BY <1>1, KindsOf, SettingDirect, DirectAccess
<1>2. ASSUME NEW g \in Of({"request-options"}), NEW v \in Values,
             Comes(Amending(host, wrapped[g], "timeout", v), {})
      PROVE  Inv' /\ Direct!Call
  <2>1. Inv' /\ Direct!Comes(Direct!Amending(Seen, g, "timeout", v))
    BY <1>2, KindsOf, AmendingDirect
  <2> QED BY <2>1, DirectAccess
<1>3. ASSUME NEW g \in Of({"outgoing-request"}), NEW m \in Methods,
             Comes(Amending(host, wrapped[g], "method", method_map(m)), {})
      PROVE  Inv' /\ Direct!Call
  <2>1. method_map(m) = m /\ m = [variant |-> m.variant, payload |-> m.payload]
    BY MessagesAssumption DEF method_map
  <2>2. Inv' /\ Direct!Comes(Direct!Amending(Seen, g, "method", m))
    BY <1>3, <2>1, KindsOf, AmendingDirect
  <2> QED BY <2>2, DirectAccess
<1>4. ASSUME NEW g \in Of({"outgoing-response"}), NEW v \in Values,
             Comes(Amending(host, wrapped[g], "status", v), {})
      PROVE  Inv' /\ Direct!Call
  <2>1. Inv' /\ Direct!Comes(Direct!Amending(Seen, g, "status", v))
    BY <1>4, KindsOf, AmendingDirect
  <2> QED BY <2>1, DirectAccess
<1> QED BY <1>1, <1>2, <1>3, <1>4

\* Every call of the guest through the adapter is one it could make of the host.
LEMMA CallStep ==
  ASSUME Inv, Call
  PROVE  Inv' /\ Direct!Call
<1>1. CASE Handle
  BY <1>1, IntoInnerStep DEF Handle, Eaters
<1>2. CASE RequestOptions
  <2>1. CASE New("request-options")
    BY <2>1, NewStep
  <2>2. CASE \E g \in Of({"request-options"}) : Comes(Reading(host, wrapped[g]), {})
    BY <2>2, KindsOf, ReadingStep
  <2> QED BY <1>2, <2>1, <2>2, SetsStep DEF RequestOptions
<1>3. CASE Fields
  <2>1. CASE New("fields")
    BY <2>1, NewStep
  <2>2. CASE \E g \in Of({"fields"}) : Forward("clone", g)
    BY <2>2, ForwardStep, MakesFrom
  <2>3. CASE \E g \in Of({"fields"}) : Comes(Reading(host, wrapped[g]), {})
    BY <2>3, KindsOf, ReadingStep
  <2> QED BY <1>3, <2>1, <2>2, <2>3, SetsStep DEF Fields
<1>4. CASE OutgoingRequest
  <2>1. CASE \E gs \in Given("new_request") : IntoInner("new_request", gs)
    BY <2>1, IntoInnerStep DEF Eaters
  <2>2. CASE \E g \in Of({"outgoing-request"}) : Forward("body", g)
    BY <2>2, KindsOf, ForwardStep, MakesFrom
  <2>3. CASE \E g \in Of({"outgoing-request"}) : Forward("headers", g)
    BY <2>3, KindsOf, ForwardStep, MakesFrom
  <2>4. CASE \E g \in Of({"outgoing-request"}) : Comes(Reading(host, wrapped[g]), {})
    BY <2>4, KindsOf, ReadingStep
  <2> QED BY <1>4, <2>1, <2>2, <2>3, <2>4, SetsStep DEF OutgoingRequest
<1>5. CASE IncomingResponse
  <2>1. CASE \E g \in Of({"incoming-response"}) : Forward("headers", g)
    BY <2>1, KindsOf, ForwardStep, MakesFrom
  <2>2. CASE \E g \in Of({"incoming-response"}) : Forward("consume", g)
    BY <2>2, KindsOf, ForwardStep, MakesFrom
  <2>3. CASE \E g \in Of({"incoming-response"}) : Comes(Reading(host, wrapped[g]), {})
    BY <2>3, KindsOf, ReadingStep
  <2> QED BY <1>5, <2>1, <2>2, <2>3 DEF IncomingResponse
<1>6. CASE IncomingBody
  <2>1. CASE \E g \in Of({"incoming-body"}) : Forward("stream", g)
    BY <2>1, ForwardStep, MakesFrom
  <2>2. CASE \E gs \in Given("finish_incoming") : IntoInner("finish_incoming", gs)
    BY <2>2, IntoInnerStep DEF Eaters
  <2> QED BY <1>6, <2>1, <2>2 DEF IncomingBody
<1>7. CASE FutureTrailers
  <2>1. CASE \E g \in Of({"future-trailers"}) : Forward("subscribe", g)
    BY <2>1, KindsOf, ForwardStep, MakesFrom
  <2>2. CASE \E g \in Of({"future-trailers"}) : Forward("get_trailers", g)
    BY <2>2, ForwardStep, MakesFrom
  <2> QED BY <1>7, <2>1, <2>2 DEF FutureTrailers
<1>8. CASE OutgoingResponse
  <2>1. CASE \E gs \in Given("new_response") : IntoInner("new_response", gs)
    BY <2>1, IntoInnerStep DEF Eaters
  <2>2. CASE \E g \in Of({"outgoing-response"}) : Forward("body", g)
    BY <2>2, KindsOf, ForwardStep, MakesFrom
  <2>3. CASE \E g \in Of({"outgoing-response"}) : Forward("headers", g)
    BY <2>3, KindsOf, ForwardStep, MakesFrom
  <2>4. CASE \E g \in Of({"outgoing-response"}) : Comes(Reading(host, wrapped[g]), {})
    BY <2>4, KindsOf, ReadingStep
  <2> QED BY <1>8, <2>1, <2>2, <2>3, <2>4, SetsStep DEF OutgoingResponse
<1>9. CASE OutgoingBody
  <2>1. CASE \E g \in Of({"outgoing-body"}) : Forward("write", g)
    BY <2>1, ForwardStep, MakesFrom
  <2>2. CASE \E gs \in Given("finish_outgoing") : IntoInner("finish_outgoing", gs)
    BY <2>2, IntoInnerStep DEF Eaters
  <2> QED BY <1>9, <2>1, <2>2 DEF OutgoingBody
<1>10. CASE FutureIncomingResponse
  <2>1. CASE \E g \in Of({"future-incoming-response"}) : Forward("subscribe", g)
    BY <2>1, KindsOf, ForwardStep, MakesFrom
  <2>2. CASE \E g \in Of({"future-incoming-response"}) : Forward("get_response", g)
    BY <2>2, ForwardStep, MakesFrom
  <2> QED BY <1>10, <2>1, <2>2 DEF FutureIncomingResponse
<1>11. CASE ResolveAddressStream
  <2>1. CASE New("resolve-address-stream")
    BY <2>1, NewStep
  <2>2. CASE \E g \in Of({"resolve-address-stream"}) : Forward("subscribe", g)
    BY <2>2, KindsOf, ForwardStep, MakesFrom
  <2>3. CASE \E g \in Of({"resolve-address-stream"}) : Comes(Resolving(host), {})
    BY <2>3, KindsOf, TellingDirect, DirectAccess
  <2> QED BY <1>11, <2>1, <2>2, <2>3 DEF ResolveAddressStream
<1>12. CASE Streams
  <2>1. CASE \E g \in Of({"input-stream", "output-stream"}) : Forward("subscribe", g)
    BY <2>1, KindsOf, ForwardStep, MakesFrom
  <2>2. CASE \E g \in Of({"input-stream", "output-stream"}) :
               Comes(Operating(host, HostHandle, wrapped[g]), {})
    BY <2>2, KindsOf, OperatingDirect, DirectAccess
  <2> QED BY <1>12, <2>1, <2>2 DEF Streams
<1>13. CASE http_error_code
  BY <1>13, KindsOf, TellingDirect, DirectAccess DEF http_error_code
<1>14. CASE Drop
  BY <1>14, DropDirect, DirectCalls DEF Drop
<1> QED BY <1>1, <1>2, <1>3, <1>4, <1>5, <1>6, <1>7, <1>8, <1>9, <1>10, <1>11,
           <1>12, <1>13, <1>14 DEF Call

LEMMA InvInitially == Init => Inv
BY DEF Init, Inv, WellFormed, Wraps

LEMMA InvKept == Inv /\ [Next]_vars => Inv'
<1>1. Inv /\ UNCHANGED vars => Inv'
  BY DEF vars, Inv, WellFormed, Wraps
<1> QED BY <1>1, CallStep DEF Next

\* For any handles, values, methods and codes every handle of the host is within
\* exactly one resource of the guest: none leaks, none is used by two.
THEOREM Conservation == Spec => []Conserved
<1>1. Inv => Conserved
  BY DEF Inv, Wraps, Conserved
<1> QED BY <1>1, InvInitially, InvKept, PTL DEF Spec

\* And the guest cannot tell the adapter from the host: every behaviour through
\* the wrappers is, resource for resource, answer for answer and message for
\* message, one of a component that calls the host itself.
THEOREM Transparency == Spec => Transparent
<1>1. Init => Direct!Init
  <2> SUFFICES ASSUME Init PROVE Direct!Init
    OBVIOUS
  <2>1. Seen = [h \in {} |-> Direct!Nil]
    BY DEF Init, Seen
  <2> QED BY <2>1, SameBasics DEF Init, Direct!Init
<1>2. Inv /\ [Next]_vars => [Direct!Next]_Direct!vars
  <2> SUFFICES ASSUME Inv, [Next]_vars PROVE [Direct!Next]_Direct!vars
    OBVIOUS
  <2>1. CASE Next
    BY <2>1, CallStep DEF Next, Direct!Next
  <2>2. CASE UNCHANGED vars
    <3>1. Seen' = Seen
      BY <2>2 DEF vars, Seen, Around
    <3> QED BY <2>2, <3>1 DEF vars, Direct!vars
  <2> QED BY <2>1, <2>2
<1> QED BY <1>1, <1>2, InvInitially, InvKept, PTL DEF Spec, Transparent, Direct!Spec

=============================================================================
