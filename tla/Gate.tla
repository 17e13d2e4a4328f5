------------------------------- MODULE Gate --------------------------------
(***************************************************************************)
(* The logic functors of vvp/logic.cc: a gate keeps its inputs, asks the   *)
(* scheduler for one run when one of them changes and sends its output     *)
(* from that run.  The output drives a wire; with Feedback the wire is     *)
(* also the second input.  Inputs without a source get a constant from the *)
(* code generator.                                                         *)
(***************************************************************************)
EXTENDS Integers, Sequences, SequencesExt

CONSTANTS Types,       \* gate types of the run
          Width,
          Connected,   \* number of inputs with a source
          Feedback,
          FirstZ       \* a source may begin with z bits

GateAssumption ==
    /\ Types \subseteq {"AND", "NAND", "OR", "NOR", "XOR", "XNOR", "BUF", "NOT", "MUXZ"}
    /\ Connected \in 1 .. 4 /\ Width \in Nat \ {0}

Bit4 == {"0", "1", "x", "z"}
Vec == [1 .. Width -> Bit4]
Fill(b) == [i \in 1 .. Width |-> b]
Bitwise(Op(_, _), v, w) == [i \in DOMAIN v |-> Op(v[i], w[i])]

And(a, b) == CASE "0" \in {a, b} -> "0" [] {a, b} = {"1"} -> "1" [] OTHER -> "x"
Or(a, b) == CASE "1" \in {a, b} -> "1" [] {a, b} = {"0"} -> "0" [] OTHER -> "x"
Xor(a, b) == IF {a, b} \subseteq {"0", "1"} THEN (IF a = b THEN "0" ELSE "1") ELSE "x"
Not(v) == [i \in DOMAIN v |-> Xor(v[i], "1")]

VARIABLES type,
          input,     \* input_, or a_, b_ and the select of a MUXZ
          net,       \* net_ is set: a run is scheduled
          has_run,
          wire,      \* the wire the gate drives
          source     \* what the sources of the inputs have sent, <<>> at first

vars == <<type, input, net, has_run, wire, source>>

Ports == IF type \in {"BUF", "NOT"} THEN 0 .. 0 ELSE IF type = "MUXZ" THEN 0 .. 2 ELSE 0 .. 3
PortVec(port) == IF type = "MUXZ" /\ port = 2 THEN [1 .. 1 -> Bit4] ELSE Vec

(* The constant the code generator writes for an input without a source *)
identity == IF type \in {"AND", "NAND"} THEN "1" ELSE "0"

SelectOf(v) == CASE v[1] = "0" -> "SEL_PORT0" [] v[1] = "1" -> "SEL_PORT1" [] OTHER -> "SEL_BOTH"

----------------------------------------------------------------------------
(* What the gate makes of its inputs *)

MuxBoth(a, b) == [i \in DOMAIN a |-> IF a[i] = b[i] /\ a[i] # "z" THEN a[i] ELSE "x"]

muxz(in) ==
    CASE SelectOf(in[2]) = "SEL_PORT0" -> in[0]
      [] SelectOf(in[2]) = "SEL_PORT1" -> in[1]
      [] OTHER -> MuxBoth(in[0], in[1])

xor(in) == Bitwise(Xor, Bitwise(Xor, Bitwise(Xor, in[0], in[1]), in[2]), in[3])

(* The and and or functors of inputs of one width look at two of them. *)
result(in) ==
    CASE type = "AND" -> Bitwise(And, in[0], in[1])
      [] type = "NAND" -> Not(Bitwise(And, in[0], in[1]))
      [] type = "OR" -> Bitwise(Or, in[0], in[1])
      [] type = "NOR" -> Not(Bitwise(Or, in[0], in[1]))
      [] type = "XOR" -> xor(in)
      [] type = "XNOR" -> Not(xor(in))
      [] type = "BUF" -> [i \in DOMAIN in[0] |-> IF in[0][i] = "z" THEN "x" ELSE in[0][i]]
      [] type = "NOT" -> Not(in[0])
      [] type = "MUXZ" -> muxz(in)

----------------------------------------------------------------------------
(* Receiving *)

(* [input, run]: the inputs after vec came in at port, and whether a run is
   asked for.  run is the value of has_run_ at that moment. *)
recv_mux(in, run, port, vec) ==
    LET sel == SelectOf(in[2])
        other == \/ port = 0 /\ sel = "SEL_PORT1"
                 \/ port = 1 /\ sel = "SEL_PORT0"
        same == IF port = 2 THEN SelectOf(vec) = sel /\ (run \/ sel # "SEL_BOTH")
                ELSE vec = in[port] /\ run
    IN [input |-> IF same THEN in ELSE [in EXCEPT ![port] = vec], run |-> ~same /\ ~other]

recv_gate(in, run, port, vec) == [input |-> [in EXCEPT ![port] = vec], run |-> vec # in[port]]

recv(in, run, port, vec) ==
    IF type = "MUXZ" THEN recv_mux(in, run, port, vec) ELSE recv_gate(in, run, port, vec)

(* A source of an input sends: a constant once, others at any time. *)
recv_vec4(port, vec) ==
    /\ ~(Feedback /\ port = 1)
    /\ port < Connected => (source[port] = <<>> /\ ~FirstZ => "z" \notin Range(vec))
    /\ port >= Connected => vec = Fill(identity) /\ source[port] = <<>>
    /\ LET r == recv(input, has_run, port, vec)
       IN input' = r.input /\ net' = (net \/ r.run)
    /\ source' = [source EXCEPT ![port] = vec]
    /\ UNCHANGED <<type, has_run, wire>>

(* A part of a vector, once the source has sent a whole one *)
recv_vec4_pv(port, base, bit) ==
    /\ ~(Feedback /\ port = 1) /\ port < Connected /\ source[port] # <<>>
    /\ LET Set(v) == [v EXCEPT ![base] = bit]
           r == recv(input, has_run, port, Set(input[port]))
       IN /\ input' = r.input /\ net' = (net \/ r.run)
          /\ source' = [source EXCEPT ![port] = Set(source[port])]
    /\ UNCHANGED <<type, has_run, wire>>

(* net_ is cleared before the output is sent, so that what comes back asks
   for another run. *)
run_run ==
    /\ net
    /\ has_run' = TRUE
    /\ wire' = result(input)
    /\ LET r == recv(input, TRUE, 1, wire')
       IN IF Feedback THEN input' = r.input /\ net' = r.run
          ELSE input' = input /\ net' = FALSE
    /\ UNCHANGED <<type, source>>

----------------------------------------------------------------------------
Init ==
    /\ type \in Types
    /\ input = [p \in Ports |-> IF type = "MUXZ" /\ p = 2 THEN <<"x">> ELSE Fill("z")]
    /\ net = FALSE
    /\ has_run = FALSE
    /\ wire = Fill("z")
    /\ source = [p \in Ports |-> <<>>]

Next ==
    \/ \E port \in Ports : \E vec \in PortVec(port) : recv_vec4(port, vec)
    \/ \E port \in Ports, base \in 1 .. Width, bit \in Bit4 :
           (type = "MUXZ" => port # 2) /\ recv_vec4_pv(port, base, bit)
    \/ run_run

Spec == Init /\ [][Next]_vars

----------------------------------------------------------------------------
(* Properties *)

(* The gate as the documentation has it: up to four inputs down to one *)
Wanted(in) ==
    LET Fold(Op(_, _)) == Bitwise(Op, Bitwise(Op, Bitwise(Op, in[0], in[1]), in[2]), in[3])
    IN CASE type = "AND" -> Fold(And)
         [] type = "NAND" -> Not(Fold(And))
         [] type = "OR" -> Fold(Or)
         [] type = "NOR" -> Not(Fold(Or))
         [] type = "XOR" -> Fold(Xor)
         [] type = "XNOR" -> Not(Fold(Xor))
         [] type = "BUF" -> Bitwise(Or, in[0], Fill("0"))
         [] type = "NOT" -> Bitwise(Xor, in[0], Fill("1"))
         [] type = "MUXZ" /\ in[2] = <<"0">> -> in[0]
         [] type = "MUXZ" /\ in[2] = <<"1">> -> in[1]
         [] OTHER -> [i \in 1 .. Width |-> IF {in[0][i], in[1][i]} \in {{"0"}, {"1"}} THEN in[0][i] ELSE "x"]

(* When no run is scheduled and every source has sent, the wire has the value
   of the gate for what the sources sent last: no change of an input is lost,
   whether it came in parts, came back from the output itself or met an
   earlier run. *)
Settled ==
    LET seen == [p \in Ports |-> IF Feedback /\ p = 1 THEN wire ELSE source[p]]
    IN ~net /\ (\A p \in Ports : seen[p] # <<>>) => wire = Wanted(seen)

============================================================================
