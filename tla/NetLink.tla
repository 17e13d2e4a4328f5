------------------------------ MODULE NetLink ------------------------------
(***************************************************************************)
(* The links and nexus objects of the compiler (net_link.cc, link_const.cc):*)
(* a net is a circular list of links; the last link alone points to the    *)
(* nexus, which points to the last link.  The nexus keeps a guess of the   *)
(* constant that drives the net.                                           *)
(*                                                                         *)
(* A link belongs to a pin of an object, whose kind gives its direction    *)
(* and what it drives:                                                     *)
(*   in      an input                        gate    an output, not constant*)
(*   k0 k1 kz  a constant                    wire    a net                  *)
(*   lval    a net that is assigned or forced  port  an input of a root     *)
(*   tri0 supply1  a net that pulls          wand    a net that resolves    *)
(* The last three links of a design that inserts a net delay are made by   *)
(* elaborate_delays itself.                                                *)
(***************************************************************************)
EXTENDS Integers, Sequences, FiniteSets

CONSTANTS
  Links,      \* links, numbered from 1
  KindOf,     \* sequence of their kinds
  Spare,      \* links that only elaborate_delays connects: the net, the
              \* input and the output of the buffer (none: no delays)
  Passes      \* TRUE: the passes after elaboration ask for nexus objects too

LinksOK == Links = 1..Len(KindOf)

VARIABLES
  s,          \* next_, nexus_ and lnexus_ of the links; list_ and driven_ of the nexus
  done,       \* "elab", "post" once lnexus_ is in use, "delayed" in the end
  asked,      \* ghost: link and answer of the last question
  drivers     \* ghost: drivers of the delayed net before its delay was inserted

vars == <<s, done, asked, drivers>>

none == 0
Nexa == 1..Len(KindOf) + 1
Free == -1                    \* list_ of a nexus object that does not exist
NO_GUESS == "?"
VAR == "var"

Dir(l) ==
  CASE KindOf[l] = "in" -> "INPUT"
    [] KindOf[l] \in {"wire", "lval", "port", "wand"} -> "PASSIVE"
    [] OTHER -> "OUTPUT"

Init ==
  /\ s = [next |-> [l \in Links |-> none], nexus |-> [l \in Links |-> none],
          lnexus |-> [l \in Links |-> none],
          list |-> [n \in Nexa |-> Free], driven |-> [n \in Nexa |-> NO_GUESS]]
  /\ done = "elab"
  /\ asked = <<none, none>>
  /\ drivers = {}

(***************************************************************************)
(* The lists.                                                              *)
(***************************************************************************)

(* The first link from l on, along the circle, that names its nexus. *)
RECURSIVE Seek(_, _, _)
Seek(t, l, stop) ==
  IF t.nexus[l] # none THEN t.nexus[l]
  ELSE IF t.next[l] = stop THEN none ELSE Seek(t, t.next[l], stop)

find_nexus_(t, l) == Seek(t, l, l)

(* The links of a list from first_nlink on: the last names the nexus. *)
RECURSIVE WalkFrom(_, _)
WalkFrom(t, l) == IF t.nexus[l] # none THEN <<l>> ELSE <<l>> \o WalkFrom(t, t.next[l])

Walk(t, n) == IF t.list[n] = none THEN <<>> ELSE WalkFrom(t, t.next[t.list[n]])
Members(t, n) == {Walk(t, n)[i] : i \in 1..Len(Walk(t, n))}

NewNexus(t, l) ==
  LET n == CHOOSE n \in Nexa : t.list[n] = Free /\ \A m \in Nexa : t.list[m] = Free => n <= m IN
    [t EXCEPT !.list[n] = l, !.driven[n] = NO_GUESS, !.next[l] = l, !.nexus[l] = n]

Delete(t, n) == [t EXCEPT !.list[n] = Free, !.driven[n] = NO_GUESS]

Nexus_connect_Keep(t, n, r) ==
  LET last == t.list[n] IN
  IF t.next[r] = none
  THEN [t EXCEPT !.nexus = [@ EXCEPT ![last] = none, ![r] = n],
                 !.next = [@ EXCEPT ![r] = t.next[last], ![last] = r], !.list[n] = r]
  ELSE LET m == find_nexus_(t, r)
           end == t.list[m] IN
       IF n = m THEN t
       ELSE Delete([t EXCEPT !.next = [@ EXCEPT ![last] = t.next[end], ![end] = t.next[last]],
                             !.nexus = [@ EXCEPT ![last] = none, ![end] = n], !.list[n] = end], m)

(* Nexus::connect: an unconnected link goes to the end of the list, the     *)
(* list of another nexus is spliced in and that nexus deleted.             *)
Nexus_connect(t, n, r) ==
  LET last == t.list[n] IN
  IF t.next[r] = none
  THEN [t EXCEPT !.driven[n] = IF Dir(r) # "INPUT" THEN NO_GUESS ELSE @,
                 !.nexus = [@ EXCEPT ![last] = none, ![r] = n],
                 !.next = [@ EXCEPT ![r] = t.next[last], ![last] = r],
                 !.list[n] = r]
  ELSE LET m == find_nexus_(t, r)
           end == t.list[m] IN
       IF n = m THEN t
       ELSE Delete([t EXCEPT !.driven[n] = IF t.driven[m] # "z" THEN NO_GUESS ELSE @,
                             !.next = [@ EXCEPT ![last] = t.next[end], ![end] = t.next[last]],
                             !.nexus = [@ EXCEPT ![last] = none, ![end] = n],
                             !.list[n] = end], m)

connect(t, l, r) ==
  CASE t.next[l] # none -> Nexus_connect(t, find_nexus_(t, l), r)
    [] t.next[l] = none /\ t.next[r] # none -> Nexus_connect(t, find_nexus_(t, r), l)
    [] OTHER -> LET u == NewNexus(t, l) IN Nexus_connect(u, u.nexus[l], r)

(* Nexus::unlink *)
Nexus_unlink(t, n, that) ==
  LET prev == CHOOSE p \in Links : t.next[p] = that IN
    IF t.next[that] = that
    THEN [t EXCEPT !.list[n] = none, !.driven[n] = NO_GUESS, !.nexus[that] = none, !.next[that] = none]
    ELSE [t EXCEPT !.driven[n] = IF Dir(that) # "INPUT" THEN NO_GUESS ELSE @,
                   !.next = [@ EXCEPT ![prev] = t.next[that], ![that] = none],
                   !.list[n] = IF @ = that THEN prev ELSE @,
                   !.nexus = [@ EXCEPT ![that] = none, ![prev] = IF t.list[n] = that THEN n ELSE @]]

(***************************************************************************)
(* Operations of elaboration and of the passes after it.                   *)
(***************************************************************************)

Usual == Links \ {Spare[i] : i \in 1..Len(Spare)}

Connect(l, r) ==
  /\ done = "elab" /\ l # r
  /\ s' = connect(s, l, r)
  /\ UNCHANGED <<done, asked, drivers>>

(* Link::unlink, which leaves a list of one link alone. *)
Unlink(l) ==
  /\ done # "delayed" /\ s.next[l] \notin {none, l}
  /\ s' = Nexus_unlink(s, find_nexus_(s, l), l)
  /\ UNCHANGED <<done, asked, drivers>>

(* Link::~Link; the link stands for that of the next object after it. *)
Destroy(l) ==
  /\ done # "delayed" /\ s.next[l] # none
  /\ LET n == find_nexus_(s, l)
         u == Nexus_unlink(s, n, l)
         v == [u EXCEPT !.lnexus[l] = none] IN
       s' = IF v.list[n] = none THEN Delete(v, n) ELSE v
  /\ UNCHANGED <<done, asked, drivers>>

(* Link::nexus, which makes the nexus of a link that has none. *)
WithNexus(t, l) == IF t.next[l] = none THEN NewNexus(t, l) ELSE t

Constants(t, n) == {l \in Members(t, n) : KindOf[l] \in {"k0", "k1", "kz", "tri0", "supply1"}}

(* Nexus::drivers_constant: the nexus with its guess; a guess VAR means no. *)
drivers_constant(t, n) ==
  LET kinds == {KindOf[l] : l \in Members(t, n)}
      fixed == /\ kinds \cap {"gate", "lval", "port"} = {}
               /\ Cardinality(Constants(t, n)) <= 1 IN
    IF t.driven[n] # NO_GUESS THEN t
    ELSE [t EXCEPT !.driven[n] =
            CASE ~fixed -> VAR
              [] fixed /\ "tri0" \in kinds -> "0"
              [] fixed /\ "supply1" \in kinds -> "1"
              [] OTHER -> NO_GUESS]

ValueOf(k) == CASE k \in {"k0", "tri0"} -> "0" [] k \in {"k1", "supply1"} -> "1" [] OTHER -> "z"

(* Nexus::driven_value of a nexus whose drivers are constant. *)
driven_value(t, n) ==
  IF t.driven[n] # NO_GUESS THEN t
  ELSE [t EXCEPT !.driven[n] =
          IF Constants(t, n) = {} THEN "z" ELSE ValueOf(KindOf[CHOOSE l \in Constants(t, n) : TRUE])]

(* A pass asks whether the net of an input is constant, and for its value. *)
AskConstant(l) ==
  /\ done # "delayed"
  /\ LET t == WithNexus(s, l)
         n == find_nexus_(t, l)
         u == drivers_constant(t, n) IN
       s' = IF u.driven[n] = VAR THEN u ELSE driven_value(u, n)
  /\ UNCHANGED <<done, asked, drivers>>

(* Link::find_nexus_post_elab: the walk leaves lnexus_ in the links that it *)
(* passed.                                                                 *)
RECURSIVE Passed(_, _)
Passed(t, l) ==
  IF t.nexus[l] # none \/ t.lnexus[l] # none THEN <<l>> ELSE <<l>> \o Passed(t, t.next[l])

find_nexus_post_elab(t, l) ==
  LET path == Passed(t, l)
      end == path[Len(path)]
      n == IF t.nexus[end] # none THEN t.nexus[end] ELSE t.lnexus[end]
      seen == {path[i] : i \in 1..Len(path) - 1} IN
    [n |-> n, t |-> [t EXCEPT !.lnexus = [x \in Links |-> IF x \in seen THEN n ELSE @[x]]]]

AskNexus(l) ==
  /\ Passes /\ done # "delayed"
  /\ LET a == find_nexus_post_elab(WithNexus(s, l), l) IN
       /\ s' = a.t
       /\ asked' = <<l, a.n>>
  /\ done' = "post"
  /\ UNCHANGED drivers

(***************************************************************************)
(* NetScope::elaborate_delays.                                             *)
(***************************************************************************)

Drives(l) == Dir(l) = "OUTPUT" \/ KindOf[l] = "wand"

drivers_present(t, n) == \E l \in Members(t, n) : Drives(l)

(* Nexus::replace_driver: the loop goes on from the link that has been      *)
(* moved, in the list that it is in by then.                               *)
RECURSIVE replace_driver(_, _, _, _)
replace_driver(t, n, cur, l) ==
  LET u == IF Drives(cur) THEN connect(Nexus_unlink(t, n, cur), cur, l) ELSE t IN
    IF u.nexus[cur] # none THEN u ELSE replace_driver(u, n, u.next[cur], l)

Drivers(t, l) == {x \in Members(t, find_nexus_(t, l)) : Drives(x)}

elaborate_delays(sig) ==
  /\ Spare # <<>> /\ done = "elab"
  /\ s.next[sig] # none
  /\ LET n == find_nexus_(s, sig)
         t == replace_driver(s, n, s.next[s.list[n]], Spare[1])
         u == connect(t, Spare[2], Spare[1]) IN
       /\ drivers_present(s, n)
       /\ s' = connect(u, Spare[3], sig)
       /\ drivers' = Drivers(s, sig)
       /\ asked' = <<sig, none>>
  /\ done' = "delayed"

Stop == done = "delayed" /\ UNCHANGED vars

Next ==
  \/ \E l, r \in Usual : Connect(l, r)
  \/ \E l \in Usual : Unlink(l)
  \/ \E l \in Usual : Destroy(l)
  \/ \E l \in Usual : AskConstant(l)
  \/ \E l \in Usual : AskNexus(l)
  \/ \E sig \in {l \in Usual : KindOf[l] \in {"wire", "wand", "tri0"}} : elaborate_delays(sig)
  \/ Stop

Spec == Init /\ [][Next]_vars

(***************************************************************************)
(* Properties.                                                             *)
(***************************************************************************)

Alive == {n \in Nexa : s.list[n] # Free}

(* The circle through a link, by the next_ pointers alone. *)
RECURSIVE Circle(_)
Circle(C) == LET D == C \union {s.next[l] : l \in C} IN IF D = C THEN C ELSE Circle(D)
NetOfLink(l) == IF s.next[l] = none THEN {l} ELSE Circle({l})
NetsNow == {NetOfLink(l) : l \in Links}

(* Every list is a circle whose last link, the one that the nexus points   *)
(* to, is the only one that points to the nexus; no nexus is empty, and    *)
(* none is left without links.                                             *)
Rings ==
  /\ \A n \in Alive : s.list[n] # none /\ s.nexus[s.list[n]] = n
  /\ \A l \in Links : s.nexus[l] # none => (s.next[l] # none /\ s.list[s.nexus[l]] = l)
  /\ \A l \in Links : s.next[l] # none =>
       Cardinality({x \in NetOfLink(l) : s.nexus[x] # none}) = 1

(* The lists are a partition of the pins: a step makes one net of two, or  *)
(* takes a pin off and leaves the rest of its net together.                *)
NetsMove ==
  \/ NetsNow' = NetsNow
  \/ \E M, N \in NetsNow : NetsNow' = (NetsNow \ {M, N}) \union {M \union N}
  \/ \E N \in NetsNow : \E l \in N : NetsNow' = (NetsNow \ {N}) \union ({N \ {l}} \ {{}}) \union {{l}}

(* The value that all drivers of a net give together; the net has no other *)
(* driver than constants when this is asked.                               *)
Resolved(N) ==
  LET vals == {KindOf[l] : l \in N} IN
    CASE vals \cap {"gate", "lval", "port"} # {} -> VAR
      [] {"k0", "k1"} \subseteq vals \/ {"k0", "supply1"} \subseteq vals -> "x"
      [] vals \cap {"k1", "supply1"} # {} -> "1"
      [] vals \cap {"k0", "tri0"} # {} -> "0"
      [] OTHER -> "z"

(* A guess that a nexus keeps is the value of its net, however links came  *)
(* and went since it was made.                                             *)
GuessRight ==
  \A n \in Alive : s.driven[n] \notin {NO_GUESS, VAR} => s.driven[n] = Resolved(NetOfLink(s.list[n]))

(* After elaboration, when objects are only removed, the remembered nexus  *)
(* of a link is that of its net.                                           *)
AnswerRight == done' = "post" /\ asked' # asked => asked'[2] = Seek(s', asked'[1], asked'[1])

(* With the delay inserted, every driver of the net is in front of the     *)
(* buffer and the net, behind it, has no other driver.                     *)
DelayInserted ==
  done = "delayed" =>
    /\ drivers \ {asked[1]} \subseteq NetOfLink(Spare[1])
    /\ asked[1] \notin NetOfLink(Spare[1])
    /\ Spare[3] \in NetOfLink(asked[1])
============================================================================
