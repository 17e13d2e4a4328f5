----------------------------- MODULE MCFunctors -----------------------------
(***************************************************************************)
(* Instances of the functors of a net, each with every input a run of it   *)
(* may meet: gates, flip-flops, switches, part selects, primitives,        *)
(* resolvers, islands, delays and module paths.  They do not share state,  *)
(* so one of them runs at a time.                                          *)
(***************************************************************************)
EXTENDS Integers, Sequences, TLC, Strength

CONSTANTS
  Components,   \* the components to run
  Unused,       \* value of the variables of the others
  NoValue,      \* no input has arrived yet (Delay)
  NoPort        \* a switch without an enable (Island)

VARIABLES
  part,         \* the component that runs
  \* Gate
  gate_type, gate_input, gate_net, has_run, wire, source,
  \* Flop
  flop_kind, clk_active, clk, ena, asc, flop_d, flop_out, flop_q, port_clk, port_d,
  begun, want,
  \* Mos
  mos_type, bit_, en, mos_out, mos_sent,
  \* Part
  part_kind, drv, fmask, part_force, part_sent, other, sel, part_f, part_out, aborted,
  \* Udp
  table, current_, cur_out_, pending, udp_net, asked,
  \* Resolv
  resolv_type, val_, resolv_net, resolv_in,
  \* Island
  mesh, invalue, outvalue, pvalue, island_force, state, flagged_, sending, window,
  island_steps,
  \* Delay
  delay, list, delay_cur, initial, delay_sched, delay_input, delay_steps,
  \* Modpath
  modpath_now, wake, modpath_cond, modpath_old, dly, modpath_cur, modpath_sched, output,
  failed

gateVars == <<gate_type, gate_input, gate_net, has_run, wire, source>>
flopVars == <<flop_kind, clk_active, clk, ena, asc, flop_d, flop_out, flop_q, port_clk,
    port_d, begun, want>>
mosVars == <<mos_type, bit_, en, mos_out, mos_sent>>
partVars == <<part_kind, drv, fmask, part_force, part_sent, other, sel, part_f,
    part_out, aborted>>
udpVars == <<table, current_, cur_out_, pending, udp_net, asked>>
resolvVars == <<resolv_type, val_, resolv_net, resolv_in>>
islandVars == <<mesh, invalue, outvalue, pvalue, island_force, state, flagged_, sending,
    window, island_steps>>
delayVars == <<delay, list, delay_cur, initial, delay_sched, delay_input, delay_steps>>
modpathVars == <<modpath_now, wake, modpath_cond, modpath_old, dly, modpath_cur,
    modpath_sched, output, failed>>
vars == <<part, gateVars, flopVars, mosVars, partVars, udpVars, resolvVars, islandVars,
    delayVars, modpathVars>>

(* Tables of primitives: one row of two ports with every character and    *)
(* every output, an edge row before or after a level row that may hide it, *)
(* a flip-flop with an enable and a latch.                                 *)
EdgeChars == {"B", "f", "F", "M", "N", "P", "q", "Q", "r", "R", "%", "+", "_", "n", "p", "*"}
LevelRows == {"0", "1", "x", "?", "b", "h", "l"}
Row(c, a, o) == [cur |-> c, in |-> a, out |-> o]

OneRow ==
  {<<Row("?", <<a, b>>, o)>> : a \in EdgeChars \union {"0", "l", "?"}, b \in {"x", "h", "?"},
                               o \in {"0", "1", "x", "-"}}
  \union {<<Row("b", <<a, b>>, "1")>> : a \in LevelRows, b \in EdgeChars}
TwoRows ==
  {<<Row(c, <<a>>, o), Row("?", <<b>>, q)>> :
     c \in LevelRows, a \in {"f", "N", "r", "%", "p", "*"}, o \in {"0", "1", "-"},
     b \in {"1", "h", "l"}, q \in {"0", "1", "-"}}
Devices ==
  {<<Row("?", <<"r", "0">>, "0"), Row("?", <<"r", "1">>, "1"),
     Row("?", <<"n", "?">>, "-"), Row("?", <<"?", "*">>, "-")>>,
   <<Row("?", <<"1", "0">>, "0"), Row("?", <<"1", "1">>, "1"), Row("?", <<"0", "?">>, "-")>>}
SequentialTables == OneRow \union TwoRows \union Devices
CombinationalTables ==
  {<<Row("?", <<a, b>>, o), Row("?", <<c, d>>, q)>> :
     a \in LevelRows, b \in {"0", "?"}, o \in {"0", "1", "x"},
     c \in {"h"}, d \in LevelRows, q \in {"0", "1"}}

(* Unambiguous drivers of two strengths, and an open collector at 1. *)
Plain == {bufif(Bit1, Bit0, 6, 6), scalar(Bit1, 5, 5), scalar(Bit1, 6, 0)}
Strong == {scalar(Bit0, 6, 6), scalar(Bit1, 6, 6), HiZ}
Mixed == {scalar(Bit0, 6, 6), scalar(Bit1, 5, 5), HiZ}

(* Islands: a chain and a ring with a resistive side, each with a switch,  *)
(* a chain to force, and part selects of a vector.                         *)
Branch(x, y, e, high, res, w, par, off) ==
  [a |-> x, b |-> y, en |-> e, active_high |-> high, resistive |-> res,
   width |-> w, part |-> par, offset |-> off]
Switch(x, y, e, high, res) == Branch(x, y, e, high, res, 0, 0, 0)
Tran(x, y) == Switch(x, y, NoPort, FALSE, FALSE)
Select(x, y, w, par, off) == Branch(x, y, NoPort, FALSE, FALSE, w, par, off)
Meshed ==
  {<<Tran("a", "b"), Switch("b", "c", "e", TRUE, FALSE)>>,
   <<Tran("a", "b"), Switch("c", "a", "e", FALSE, TRUE), Switch("b", "c", NoPort, FALSE, TRUE)>>}
Chain == {<<Tran("a", "b"), Tran("b", "c")>>}
Selects == {<<Select("w", "x", 2, 1, 0), Select("w", "y", 2, 1, 1), Tran("y", "z")>>}

Edges == ("a" :> "pos") @@ ("b" :> "any") @@ ("m" :> "any") @@ ("n" :> "any")

----------------------------------------------------------------------------
(* The instances. *)

Gates == INSTANCE Gate WITH Types <- {"NAND", "NOR", "XNOR", "BUF", "NOT"}, Width <- 2,
    Connected <- 2, Feedback <- FALSE, FirstZ <- FALSE, type <- gate_type,
    input <- gate_input, net <- gate_net
Mux == INSTANCE Gate WITH Types <- {"MUXZ"}, Width <- 2, Connected <- 3,
    Feedback <- FALSE, FirstZ <- TRUE, type <- gate_type, input <- gate_input,
    net <- gate_net
GateLoop == INSTANCE Gate WITH Types <- {"AND", "OR", "XOR"}, Width <- 2,
    Connected <- 1, Feedback <- TRUE, FirstZ <- FALSE, type <- gate_type,
    input <- gate_input, net <- gate_net
GateXor == INSTANCE Gate WITH Types <- {"XOR", "XNOR"}, Width <- 1, Connected <- 4,
    Feedback <- FALSE, FirstZ <- FALSE, type <- gate_type, input <- gate_input,
    net <- gate_net
GateThree == INSTANCE Gate WITH Types <- {"AND", "OR"}, Width <- 1, Connected <- 3,
    Feedback <- FALSE, FirstZ <- FALSE, type <- gate_type, input <- gate_input,
    net <- gate_net

Flops == INSTANCE Flop WITH Kinds <- {"dff", "aclr", "aset"}, Steady <- TRUE,
    Async <- {"0", "1", "x"}, MaxOut <- 3, kind <- flop_kind, d <- flop_d,
    out <- flop_out, q <- flop_q
Latches == INSTANCE Flop WITH Kinds <- {"latch"}, Steady <- FALSE, Async <- {},
    MaxOut <- 3, kind <- flop_kind, d <- flop_d, out <- flop_out, q <- flop_q

Switches == INSTANCE Mos WITH Types <- {"NMOS", "PMOS", "RNMOS", "RPMOS", "CMOS"},
    Strengths <- {3, 6, 7}, type <- mos_type, out <- mos_out, sent <- mos_sent

Released == INSTANCE Part WITH Kinds <- {"part", "part_var", "concat", "reduce"},
    W <- 3, Driven <- {0, 1, 2}, Forces <- {{0}, {1, 2}}, kind <- part_kind,
    force <- part_force, sent <- part_sent, f <- part_f, out <- part_out
Partial == INSTANCE Part WITH
    Kinds <- {"part", "concat", "reduce", "substitute", "extend"}, W <- 4,
    Driven <- {1, 2, 3}, Forces <- {}, kind <- part_kind, force <- part_force,
    sent <- part_sent, f <- part_f, out <- part_out

SeqUdp == INSTANCE Udp WITH Tables <- SequentialTables, Sequential <- TRUE,
    IntBits <- 4, LongBits <- 8, Inits <- {0, 1, 2}, MaxPending <- 2, net <- udp_net
CombUdp == INSTANCE Udp WITH Tables <- CombinationalTables, Sequential <- FALSE,
    IntBits <- 4, LongBits <- 8, Inits <- {2}, MaxPending <- 2, net <- udp_net

Tree == INSTANCE Resolv WITH nports_ <- 5, Types <- {"tri1"}, Width <- 1,
    Drives <- Plain \ {scalar(Bit1, 6, 0)}, type <- resolv_type, net <- resolv_net,
    in <- resolv_in
Leaf == INSTANCE Resolv WITH nports_ <- 2, Types <- {"tri0", "triand", "trior"},
    Width <- 2, Drives <- Plain, type <- resolv_type, net <- resolv_net, in <- resolv_in

Mesh == INSTANCE Island WITH Meshes <- Meshed, Drives <- Mixed, Forces <- {},
    InCallback <- FALSE, MaxSteps <- 4, force <- island_force, steps <- island_steps
Forced == INSTANCE Island WITH Meshes <- Chain, Drives <- Strong,
    Forces <- {scalar(Bit1, 6, 6)}, InCallback <- FALSE, MaxSteps <- 4,
    force <- island_force, steps <- island_steps
Selected == INSTANCE Island WITH Meshes <- Selects, Drives <- Strong, Forces <- {},
    InCallback <- FALSE, MaxSteps <- 3, force <- island_force, steps <- island_steps

DelayVec == INSTANCE Delay WITH Width <- 1, Bit4 <- {"0", "1", "z"},
    Strength <- {"pull", "strong"}, Reals <- {0, 1, 2}, Kind <- "vec4",
    Times <- {0, 2, 3}, Fixed <- FALSE, Racing <- FALSE, MaxStep <- 2, cur <- delay_cur,
    sched <- delay_sched, input <- delay_input, steps <- delay_steps
DelayStrength == INSTANCE Delay WITH Width <- 2, Bit4 <- {"0", "1"},
    Strength <- {"pull", "strong"}, Reals <- {0, 1, 2}, Kind <- "vec8", Times <- {0, 3},
    Fixed <- TRUE, Racing <- FALSE, MaxStep <- 1, cur <- delay_cur,
    sched <- delay_sched, input <- delay_input, steps <- delay_steps
DelayReal == INSTANCE Delay WITH Width <- 1, Bit4 <- {"0", "1"},
    Strength <- {"pull", "strong"}, Reals <- {0, 1, 2}, Kind <- "real",
    Times <- {0, 2, 3}, Fixed <- FALSE, Racing <- FALSE, MaxStep <- 2, cur <- delay_cur,
    sched <- delay_sched, input <- delay_input, steps <- delay_steps

Path == INSTANCE Modpath WITH Src <- <<"a", "b">>, Ifnone <- <<"m", "n">>,
    EdgeOf <- Edges, Width <- 1, Bit4 <- {"0", "1"}, DelayList <- {<<1, 2>>},
    MaxTime <- 2, MaxEvents <- 1, now <- modpath_now, cond <- modpath_cond,
    old <- modpath_old, cur <- modpath_cur, sched <- modpath_sched

ASSUME ConstantsOK ==
  /\ Gates!GateAssumption
  /\ Mux!GateAssumption
  /\ GateLoop!GateAssumption
  /\ GateXor!GateAssumption
  /\ GateThree!GateAssumption
  /\ Flops!FlopAssumption
  /\ Latches!FlopAssumption
  /\ Switches!MosAssumption
  /\ Released!PartAssumption
  /\ Partial!PartAssumption
  /\ SeqUdp!BitsAssumption
  /\ CombUdp!BitsAssumption
  /\ Tree!ResolvAssumption
  /\ Leaf!ResolvAssumption
  /\ DelayVec!DelayAssumption
  /\ DelayStrength!DelayAssumption
  /\ DelayReal!DelayAssumption
  /\ Path!ModpathAssumption

----------------------------------------------------------------------------
(* One component runs, the variables of the others stay idle. *)

GateInit ==
  CASE part = "gates" -> Gates!Init
    [] part = "mux" -> Mux!Init
    [] part = "gate_loop" -> GateLoop!Init
    [] part = "gate_xor" -> GateXor!Init
    [] part = "gate_three" -> GateThree!Init
    [] OTHER -> /\ gate_type = Unused /\ gate_input = Unused /\ gate_net = Unused
                /\ has_run = Unused /\ wire = Unused /\ source = Unused

FlopInit ==
  CASE part = "flop" -> Flops!Init
    [] part = "latch" -> Latches!Init
    [] OTHER -> /\ flop_kind = Unused /\ clk_active = Unused /\ clk = Unused /\ ena = Unused
                /\ asc = Unused /\ flop_d = Unused /\ flop_out = Unused /\ flop_q = Unused
                /\ port_clk = Unused /\ port_d = Unused /\ begun = Unused /\ want = Unused

MosInit ==
  CASE part = "mos" -> Switches!Init
    [] OTHER -> /\ mos_type = Unused /\ bit_ = Unused /\ en = Unused /\ mos_out = Unused
                /\ mos_sent = Unused

PartInit ==
  CASE part = "part_release" -> Released!Init
    [] part = "part_partial" -> Partial!Init
    [] OTHER -> /\ part_kind = Unused /\ drv = Unused /\ fmask = Unused
                /\ part_force = Unused /\ part_sent = Unused /\ other = Unused
                /\ sel = Unused /\ part_f = Unused /\ part_out = Unused /\ aborted = Unused

UdpInit ==
  CASE part = "udp_seq" -> SeqUdp!Init
    [] part = "udp_comb" -> CombUdp!Init
    [] OTHER -> /\ table = Unused /\ current_ = Unused /\ cur_out_ = Unused
                /\ pending = Unused /\ udp_net = Unused /\ asked = Unused

ResolvInit ==
  CASE part = "resolv_tree" -> Tree!Init
    [] part = "resolv_part" -> Leaf!Init
    [] OTHER -> /\ resolv_type = Unused /\ val_ = Unused /\ resolv_net = Unused
                /\ resolv_in = Unused

IslandInit ==
  CASE part = "island_switch" -> Mesh!Init
    [] part = "island_force" -> Forced!Init
    [] part = "island_part" -> Selected!Init
    [] OTHER -> /\ mesh = Unused /\ invalue = Unused /\ outvalue = Unused /\ pvalue = Unused
                /\ island_force = Unused /\ state = Unused /\ flagged_ = Unused
                /\ sending = Unused /\ window = Unused /\ island_steps = Unused

DelayInit ==
  CASE part = "delay_vec" -> DelayVec!Init
    [] part = "delay_strength" -> DelayStrength!Init
    [] part = "delay_real" -> DelayReal!Init
    [] OTHER -> /\ delay = Unused /\ list = Unused /\ delay_cur = Unused /\ initial = Unused
                /\ delay_sched = Unused /\ delay_input = Unused /\ delay_steps = Unused

ModpathInit ==
  CASE part = "modpath" -> Path!Init
    [] OTHER -> /\ modpath_now = Unused /\ wake = Unused /\ modpath_cond = Unused
                /\ modpath_old = Unused /\ dly = Unused /\ modpath_cur = Unused
                /\ modpath_sched = Unused /\ output = Unused /\ failed = Unused

Init ==
  /\ part \in Components
  /\ GateInit
  /\ FlopInit
  /\ MosInit
  /\ PartInit
  /\ UdpInit
  /\ ResolvInit
  /\ IslandInit
  /\ DelayInit
  /\ ModpathInit

GateNext ==
  /\ \/ part = "gates" /\ Gates!Next
     \/ part = "mux" /\ Mux!Next
     \/ part = "gate_loop" /\ GateLoop!Next
     \/ part = "gate_xor" /\ GateXor!Next
     \/ part = "gate_three" /\ GateThree!Next
  /\ UNCHANGED <<part, flopVars, mosVars, partVars, udpVars, resolvVars, islandVars,
                 delayVars, modpathVars>>

FlopNext ==
  /\ \/ part = "flop" /\ Flops!Next
     \/ part = "latch" /\ Latches!Next
  /\ UNCHANGED <<part, gateVars, mosVars, partVars, udpVars, resolvVars, islandVars,
                 delayVars, modpathVars>>

MosNext ==
  /\ \/ part = "mos" /\ Switches!Next
  /\ UNCHANGED <<part, gateVars, flopVars, partVars, udpVars, resolvVars, islandVars,
                 delayVars, modpathVars>>

PartNext ==
  /\ \/ part = "part_release" /\ Released!Next
     \/ part = "part_partial" /\ Partial!Next
  /\ UNCHANGED <<part, gateVars, flopVars, mosVars, udpVars, resolvVars, islandVars,
                 delayVars, modpathVars>>

UdpNext ==
  /\ \/ part = "udp_seq" /\ SeqUdp!Next
     \/ part = "udp_comb" /\ CombUdp!Next
  /\ UNCHANGED <<part, gateVars, flopVars, mosVars, partVars, resolvVars, islandVars,
                 delayVars, modpathVars>>

ResolvNext ==
  /\ \/ part = "resolv_tree" /\ Tree!Next
     \/ part = "resolv_part" /\ Leaf!Next
  /\ UNCHANGED <<part, gateVars, flopVars, mosVars, partVars, udpVars, islandVars,
                 delayVars, modpathVars>>

IslandNext ==
  /\ \/ part = "island_switch" /\ Mesh!Next
     \/ part = "island_force" /\ Forced!Next
     \/ part = "island_part" /\ Selected!Next
  /\ UNCHANGED <<part, gateVars, flopVars, mosVars, partVars, udpVars, resolvVars,
                 delayVars, modpathVars>>

DelayNext ==
  /\ \/ part = "delay_vec" /\ DelayVec!Next
     \/ part = "delay_strength" /\ DelayStrength!Next
     \/ part = "delay_real" /\ DelayReal!Next
  /\ UNCHANGED <<part, gateVars, flopVars, mosVars, partVars, udpVars, resolvVars,
                 islandVars, modpathVars>>

ModpathNext ==
  /\ \/ part = "modpath" /\ Path!Next
  /\ UNCHANGED <<part, gateVars, flopVars, mosVars, partVars, udpVars, resolvVars,
                 islandVars, delayVars>>

Next ==
  \/ GateNext
  \/ FlopNext
  \/ MosNext
  \/ PartNext
  \/ UdpNext
  \/ ResolvNext
  \/ IslandNext
  \/ DelayNext
  \/ ModpathNext

Spec == Init /\ [][Next]_vars

----------------------------------------------------------------------------
(* Properties. *)

(* Once nothing is scheduled, the output of a gate is its function of what *)
(* the inputs were last sent, that of a flip-flop or latch what its clock  *)
(* and data ask for, that of a switch the value it conducts: no change of  *)
(* an input is lost, in parts, in a feedback or behind an earlier run      *)
(* (logic.cc, dff.cc, latch.cc, npmos.cc).                                 *)
OutputsFollow ==
  /\ part = "gates" => Gates!Settled
  /\ part = "mux" => Mux!Settled
  /\ part = "gate_loop" => GateLoop!Settled
  /\ part = "gate_xor" => GateXor!Settled
  /\ part = "flop" => Flops!Follows
  /\ part = "latch" => Latches!Follows
  /\ part = "mos" => Switches!Conducts

(* A gate combines all of its inputs, of which it has up to four           *)
(* (vvp/README.txt on functors).                                           *)
AllInputsUsed == part = "gate_three" => GateThree!Settled

(* What a select, concatenation, reduction, substitution or extension has  *)
(* sent agrees with the wire before it, which is driven, forced and        *)
(* released in parts, and these functors accept parts (part.cc, concat.cc, *)
(* reduce.cc, vvp_net_sig.cc).                                             *)
PartsCarried ==
  /\ part = "part_release" => Released!Carries /\ Released!NoAbort
  /\ part = "part_partial" => Partial!Carries /\ Partial!NoAbort

(* The masks and groups that a table is compiled to give the output that   *)
(* the rows ask for after any sequence of input changes, the net gets it,  *)
(* and the arrays sized by the first pass hold the rows of the second one  *)
(* (udp.cc).                                                               *)
PrimitivesAsTabled ==
  /\ part = "udp_seq" => /\ SeqUdp!AsTheTableSays
                         /\ SeqUdp!Delivered
                         /\ SeqUdp!TableFits
  /\ part = "udp_comb" => CombUdp!AsTheTableSays /\ CombUdp!Delivered

(* A change of one driver climbs one path of the tree of a resolver and    *)
(* stops where nothing changes; the net is what all drivers together give, *)
(* in whichever order, and the counted drivers are those that drive        *)
(* (resolv.cc).                                                            *)
DriversResolved ==
  /\ part = "resolv_tree" => Tree!Resolved /\ Tree!CountsDrivers
  /\ part = "resolv_part" => Leaf!OrderFree /\ Leaf!CountsDrivers

(* When an island rests, every port has the resolution of all inputs that  *)
(* its switches conduct to it, forces included, and no switch would still  *)
(* change a port (vvp_island.cc, island_tran.cc).                          *)
IslandsSettled ==
  /\ part = "island_switch" => Mesh!Settled /\ Mesh!Stable /\ Mesh!Clean
  /\ part = "island_force" => Forced!Settled
  /\ part = "island_part" => Selected!Settled /\ Selected!Stable

(* A delay functor, with its list of transitions, the events it leaves in  *)
(* the scheduler and the ones it withdraws, is an inertial delay: it has   *)
(* at most one transition in flight and ends at its input (delay.cc).      *)
DelaysInertial ==
  /\ part = "delay_vec" => DelayVec!A!Init
  /\ part = "delay_strength" => DelayStrength!A!Init
  /\ part = "delay_real" => DelayReal!A!Init
  /\ [][/\ part = "delay_vec" => [DelayVec!A!Next]_(DelayVec!A!vars)
        /\ part = "delay_strength" => [DelayStrength!A!Next]_(DelayStrength!A!vars)
        /\ part = "delay_real" => [DelayReal!A!Next]_(DelayReal!A!vars)]_vars

(* Every transition in flight has an event of its own in the scheduler, and *)
(* a delay functor with nothing left there shows its input; it keeps the   *)
(* invariant of the proofs (delay.cc).                                     *)
DelaysEnd ==
  /\ part = "delay_vec" => /\ DelayVec!DInv
                           /\ DelayVec!NoLostEvent
                           /\ DelayVec!Settled
  /\ part = "delay_strength" => DelayStrength!NoLostEvent /\ DelayStrength!MostRecent
  /\ part = "delay_real" => DelayReal!DInv /\ DelayReal!NoLostEvent /\ DelayReal!Settled

(* The delay of a transition is taken from the module paths whose source   *)
(* woke up last and whose condition holds, ifnone only without these;      *)
(* with no event left the output shows the value received last             *)
(* (vvp_fun_modpath of delay.cc).                                          *)
PathsChosen == part = "modpath" => Path!TypeOK /\ Path!CandidatesRight /\ Path!Settled
============================================================================
