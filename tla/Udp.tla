-------------------------------- MODULE Udp --------------------------------
(***************************************************************************)
(* User defined primitives, vvp/udp.cc: the rows of a table are compiled   *)
(* into masks, one group per output, and an instance looks its inputs up   *)
(* in them each time one of them changes.  A row is                        *)
(*     [cur |-> char, in |-> sequence of chars, out |-> char]              *)
(* with the characters of the assembler; the values of an input are 0, 1   *)
(* and X.  A mask is the set of its bits.                                  *)
(***************************************************************************)
EXTENDS Integers, Sequences, SequencesExt, FiniteSets

CONSTANTS Tables,      \* the tables to instantiate
          Sequential,  \* vvp_udp_seq_s or vvp_udp_comb_s
          IntBits,     \* bits of an int, 32 in the build
          LongBits,    \* bits of an unsigned long, 64 in the build
          Inits,       \* initial values of the output
          MaxPending   \* bound on the scheduled updates

BitsAssumption == IntBits \in Nat \ {0} /\ LongBits \in Nat /\ LongBits >= IntBits

X == 2
Value == {0, 1, X}
Z == 3
Input == Value \cup {Z}

VARIABLES table,
          current_, cur_out_,
          pending,   \* schedule_functor calls not run yet
          net,       \* what the net behind the instance has
          asked      \* the outputs the rows ask for, after the last input

vars == <<table, current_, cur_out_, pending, net, asked>>

port_count(t) == Len(t[1].in)

----------------------------------------------------------------------------
(* What the characters of a row stand for *)

LevelChars == {"0", "1", "x", "b", "l", "h", "?"}

(* or_based_on_char *)
or_based_on_char(c) ==
    CASE c = "0" -> {0} [] c = "1" -> {1} [] c = "x" -> {X}
      [] c = "b" -> {0, 1} [] c = "l" -> {0, X} [] c = "h" -> {X, 1}
      [] c = "?" -> Value

(* edge_based_on_char: where an edge may come from and where it ends. *)
Edge(c) ==
    CASE c = "B" -> [from |-> {X}, to |-> {0, 1}]
      [] c = "f" -> [from |-> {1}, to |-> {0}]
      [] c = "F" -> [from |-> {X}, to |-> {0}]
      [] c = "M" -> [from |-> {1}, to |-> {X}]
      [] c = "N" -> [from |-> {1}, to |-> {0, X}]
      [] c = "P" -> [from |-> {0}, to |-> {X, 1}]
      [] c = "q" -> [from |-> {0, 1}, to |-> {X}]
      [] c = "Q" -> [from |-> {0}, to |-> {X}]
      [] c = "r" -> [from |-> {0}, to |-> {1}]
      [] c = "R" -> [from |-> {X}, to |-> {1}]
      [] c = "%" -> [from |-> {0, 1}, to |-> {X}]
      [] c = "+" -> [from |-> {0, X}, to |-> {1}]
      [] c = "_" -> [from |-> {1, X}, to |-> {0}]

----------------------------------------------------------------------------
(* Compiling a row *)

(* 1 << pos, computed as an int and stored in an unsigned long: the sign bit
   is extended, and a longer shift takes the distance modulo the width. *)
BitInt(pos) == LET p == pos % IntBits
               IN IF p = IntBits - 1 THEN p .. LongBits - 1 ELSE {p}

(* 1UL << pos *)
BitLong(pos) == {pos}

IsLevelRow(r) == \A i \in DOMAIN r.in : r.in[i] \in LevelChars

(* The masks of a row of levels; the current output is one more port. *)
LevelMask(r, v) ==
    UNION {BitLong(i - 1) : i \in {j \in DOMAIN r.in : v \in or_based_on_char(r.in[j])}}
        \cup IF v \in or_based_on_char(r.cur) THEN BitLong(Len(r.in)) ELSE {}

(* The masks of a row with an edge character e at port p, in place of the
   one written there. *)
EdgeMask(r, p, e, v) ==
    UNION {BitInt(i - 1) : i \in {j \in DOMAIN r.in \ {p} : v \in or_based_on_char(r.in[j])}}
        \cup (IF v \in Edge(e).to THEN BitInt(p - 1) ELSE {})
        \cup (IF v \in or_based_on_char(r.cur) THEN BitInt(Len(r.in)) ELSE {})

LevelRow(r) == [mask |-> [v \in Value |-> LevelMask(r, v)], out |-> r.out]

EdgeRow(r, p, e) ==
    [mask |-> [v \in Value |-> EdgeMask(r, p, e, v)],
     edge_position |-> p - 1, from |-> Edge(e).from, out |-> r.out]

(* The edge characters a row is expanded into. *)
Expanded(c) ==
    CASE c = "n" -> <<"N", "_">>
      [] c = "p" -> <<"P", "+">>
      [] c = "*" -> <<"P", "N", "B">>
      [] OTHER -> <<c>>

EdgePort(r) == CHOOSE p \in DOMAIN r.in : r.in[p] \notin LevelChars

(* compile_table: the compiled rows with output o, in the order of the table.
   Edge rows whose output is x are not kept. *)
levels_(t, o) ==
    LET rows == SelectSeq(t, LAMBDA r : IsLevelRow(r) /\ r.out = o)
    IN [i \in DOMAIN rows |-> LevelRow(rows[i])]

edges_(t, o) ==
    LET rows == SelectSeq(t, LAMBDA r : ~IsLevelRow(r) /\ r.out = o)
        Of(r) == LET p == EdgePort(r)
                     es == Expanded(r.in[p])
                 IN [i \in DOMAIN es |-> EdgeRow(r, p, es[i])]
    IN FlattenSeq([i \in DOMAIN rows |-> Of(rows[i])])

(* The first pass of compile_table, which sizes the arrays. *)
extra(r) == CASE \E i \in DOMAIN r.in : r.in[i] = "*" -> 2
              [] \E i \in DOMAIN r.in : r.in[i] \in {"n", "p"} -> 1
              [] OTHER -> 0

nedges_(t, o) ==
    FoldLeft(LAMBDA n, r : IF ~IsLevelRow(r) /\ r.out = o THEN n + 1 + extra(r) ELSE n, 0, t)

----------------------------------------------------------------------------
(* Looking up *)

(* The masks of a vector of inputs and, unless it is Z, of the current
   output, which is one more port. *)
Masks(in, o) ==
    [v \in Value |-> {i - 1 : i \in {j \in DOMAIN in : in[j] = v}}
                        \cup IF o = v THEN {Len(in)} ELSE {}]

Fits(cur, row) == \A v \in Value : cur[v] \subseteq row.mask[v]

Some(rows, P(_)) == \E i \in DOMAIN rows : P(rows[i])

(* The output a `-` row stands for: the port at 1 << port_count(), an int. *)
Kept(cur, n) ==
    IF cur[0] \cap BitInt(n) # {} THEN 0
    ELSE IF cur[1] \cap BitInt(n) # {} THEN 1
    ELSE X

(* test_levels of a combinational primitive; its rows for x are not kept. *)
test_levels(t, cur) ==
    LET Hit(out) == Some(levels_(t, out), LAMBDA row : Fits(cur, row))
    IN IF Hit("0") THEN 0 ELSE IF Hit("1") THEN 1 ELSE X

(* test_levels_ of a sequential one: the groups of 0, 1, x and - in this
   order, and Z when no row matches. *)
test_levels_(t, cur) ==
    LET Hit(out) == Some(levels_(t, out), LAMBDA row : Fits(cur, row))
    IN IF Hit("0") THEN 0
       ELSE IF Hit("1") THEN 1
       ELSE IF Hit("x") THEN X
       ELSE IF Hit("-") THEN Kept(cur, port_count(t))
       ELSE Z

(* test_edges_: the rows with their edge at the one port that changed. *)
test_edges_From(t, cur, prev, in) ==
    LET p == CHOOSE i \in DOMAIN in : in[i] # prev[i]
        Hit(out) == Some(edges_(t, out),
                         LAMBDA row : /\ row.edge_position = p - 1
                                      /\ Fits(cur, row))
    IN IF Hit("0") THEN 0
       ELSE IF Hit("1") THEN 1
       ELSE IF Hit("-") THEN Kept(cur, port_count(t))
       ELSE X

test_edges_(t, cur, prev, in) ==
    LET p == CHOOSE i \in DOMAIN in : in[i] # prev[i]
        Hit(out) == Some(edges_(t, out),
                         LAMBDA row : /\ row.edge_position = p - 1
                                      /\ prev[p] \in row.from
                                      /\ Fits(cur, row))
    IN IF Hit("0") THEN 0
       ELSE IF Hit("1") THEN 1
       ELSE IF Hit("-") THEN Kept(cur, port_count(t))
       ELSE X

(* calculate_output of the two kinds of primitives. *)
calculate_output(t, in, prev, o) ==
    IF Sequential
    THEN IF in = prev THEN o
         ELSE LET cur == Masks(in, o)
                  lev == test_levels_(t, cur)
              IN IF lev = Z THEN test_edges_(t, cur, prev, in) ELSE lev
    ELSE test_levels(t, Masks(in, Z))

----------------------------------------------------------------------------
(* The reference: what the table says, read as it is written. *)

(* The changes an edge character stands for. *)
Changes(c) ==
    {e \in Value \X Value :
        e[1] # e[2] /\
        CASE c = "*" -> TRUE
          [] c = "n" -> e \in {<<1, 0>>, <<1, X>>, <<X, 0>>}
          [] c = "p" -> e \in {<<0, 1>>, <<0, X>>, <<X, 1>>}
          [] c = "r" -> e = <<0, 1>>
          [] c = "f" -> e = <<1, 0>>
          [] c = "B" -> e[1] = X
          [] c = "F" -> e = <<X, 0>>
          [] c = "R" -> e = <<X, 1>>
          [] c = "M" -> e = <<1, X>>
          [] c = "Q" -> e = <<0, X>>
          [] c = "N" -> e[1] = 1
          [] c = "P" -> e[1] = 0
          [] c \in {"q", "%"} -> e[2] = X
          [] c = "+" -> e[2] = 1
          [] c = "_" -> e[2] = 0}

Holds(r, in, prev, o) ==
    /\ o \in or_based_on_char(r.cur)
    /\ \A i \in DOMAIN in :
           IF r.in[i] \in LevelChars THEN in[i] \in or_based_on_char(r.in[i])
           ELSE <<prev[i], in[i]>> \in Changes(r.in[i])

Output(r, o) == CASE r.out = "0" -> 0 [] r.out = "1" -> 1 [] r.out = "x" -> X [] r.out = "-" -> o

(* Rows of levels come before rows with edges; without a row the output is x. *)
Asked(t, in, prev, o) ==
    LET rows == {r \in ToSet(t) : Holds(r, in, prev, o)}
        levels == {r \in rows : IsLevelRow(r)}
    IN IF Sequential /\ in = prev THEN {o}
       ELSE IF levels # {} THEN {Output(r, o) : r \in levels}
       ELSE IF rows # {} THEN {Output(r, o) : r \in rows}
       ELSE {X}

----------------------------------------------------------------------------
(* An instance *)

(* vvp_udp_fun_core: all inputs x, and the initial value on its way. *)
Init ==
    /\ table \in Tables
    /\ current_ = [i \in 1 .. port_count(table) |-> X]
    /\ cur_out_ \in Inits
    /\ pending = 1 /\ net = X
    /\ asked = {cur_out_}

(* An input arrives. *)
recv_vec4_from_inputs(p, v) ==
    LET now == [current_ EXCEPT ![p] = IF v = Z THEN X ELSE v]
    IN /\ pending < MaxPending
       /\ current_' = now
       /\ cur_out_' = calculate_output(table, now, current_, cur_out_)
       /\ pending' = IF cur_out_' = cur_out_ THEN pending ELSE pending + 1
       /\ asked' = Asked(table, now, current_, cur_out_)
       /\ UNCHANGED <<table, net>>

(* run_run propagates the output as it is when the event runs. *)
run_run ==
    /\ pending > 0
    /\ pending' = pending - 1
    /\ net' = cur_out_
    /\ UNCHANGED <<table, current_, cur_out_, asked>>

Next ==
    \/ \E p \in DOMAIN current_, v \in Input : recv_vec4_from_inputs(p, v)
    \/ run_run

Spec == Init /\ [][Next]_vars

----------------------------------------------------------------------------
(* Properties *)

(* The masks and groups give the output a matching row of the table asks for,
   level rows before edge rows and x when there is none, after any sequence of
   input changes. *)
AsTheTableSays == cur_out_ \in asked

(* The arrays sized by the first pass over the table hold exactly the rows the
   second pass writes into them. *)
TableFits ==
    \A o \in {"0", "1", "-"} : Len(edges_(table, o)) = nedges_(table, o)

(* When no update is scheduled the net has the output of the primitive. *)
Delivered == pending = 0 => net = cur_out_

============================================================================
