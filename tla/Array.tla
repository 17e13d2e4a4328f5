------------------------------- MODULE Array -------------------------------
(***************************************************************************)
(* Static arrays, vvp/array.cc: the words, the read ports attached to an   *)
(* array, the value change callbacks on a word, a part of a word or the    *)
(* whole array, and the walk word_change that tells both of a new word.    *)
(* The words are variables (vals4) or nets; an alias shares the nets of an *)
(* array and has lists of its own.  What a port feeds and what a callback  *)
(* does may write the array again before the walk goes on.                 *)
(***************************************************************************)
EXTENDS Integers, Sequences, SequencesExt

CONSTANTS Size,          \* words 0 .. Size - 1
          Bit, X,        \* X is one of the bits
          NetArray,      \* the words are nets
          Port, PortOf,  \* the array of a read port
          FixedAddr,     \* address of a port without address input, else NoAddr
          Handle,        \* what a callback may be registered on
          NoAddr,
          MaxDepth,      \* walks within walks
          MaxCallbacks, Removal

(* A handle is [array, kind, address, bit]; for the kind "Avar" address is the
   value of the variable that indexes the array, which stays as it is. *)
ArrayAssumption ==
    /\ Size \in Nat \ {0}
    /\ X \in Bit
    /\ \A h \in Handle : h.kind \in {"word", "A", "Avar", "APV", "memory"}

Array == {"mem", "alias"}
Addr == 0 .. Size - 1
Word == [0 .. 1 -> Bit]
XWord == [i \in 0 .. 1 |-> X]

VARIABLES words,   \* Addr -> Word
          ports,   \* Port -> [addr, shown]: shown is the value last sent on
          list,    \* vpi_callbacks of each array, first one first
          cb,      \* the callbacks by number
          stack    \* the walks of word_change, innermost first

vars == <<words, ports, list, cb, stack>>

nil == 0

get_word(address) == IF address \in Addr THEN words[address] ELSE XWord

(* Code outside this component runs: a thread, a callback or what a port feeds. *)
OutsideRuns == IF stack = <<>> THEN TRUE ELSE Head(stack).calling

----------------------------------------------------------------------------
(* Writing *)

Walk(array, addr) ==
    [array |-> array, addr |-> addr, ports |-> SetToSeq({p \in Port : PortOf[p] = array}),
     next |-> nil, prev |-> nil, listed |-> FALSE, calling |-> FALSE]

(* set_word: val is a sequence of bits, the one for part_off first. *)
set_word(array, address, part_off, val) ==
    /\ OutsideRuns /\ Len(stack) < MaxDepth
    /\ LET word == [i \in 0 .. 1 |-> IF i - part_off + 1 \in DOMAIN val THEN val[i - part_off + 1]
                                     ELSE get_word(address)[i]]
           changes == NetArray /\ word # get_word(address)
       IN IF address \in Addr
          THEN /\ words' = [words EXCEPT ![address] = word]
               /\ stack' = (IF changes THEN <<Walk("mem", address)>> ELSE <<>>)
                               \o <<Walk(array, address)>> \o stack
          ELSE UNCHANGED <<words, stack>>
    /\ UNCHANGED <<ports, list, cb>>

(* A driver changes a net of the array: run_vpi_callbacks of the net knows the
   array its word was attached to, never an alias. *)
net_change(address, word) ==
    /\ NetArray /\ OutsideRuns /\ Len(stack) < MaxDepth
    /\ word # words[address]
    /\ words' = [words EXCEPT ![address] = word]
    /\ stack' = <<Walk("mem", address)>> \o stack
    /\ UNCHANGED <<ports, list, cb>>

----------------------------------------------------------------------------
(* Read ports *)

(* The address input of a port changes; an undefined address selects the word
   behind the last one. *)
recv_vec4(p, address) ==
    /\ OutsideRuns /\ FixedAddr[p] = NoAddr
    /\ LET addr == IF address = NoAddr THEN Size ELSE address
       IN ports' = [ports EXCEPT ![p] = [addr |-> addr, shown |-> get_word(addr)]]
    /\ UNCHANGED <<words, list, cb, stack>>

check_word_change ==
    /\ stack # <<>> /\ ~Head(stack).calling /\ Head(stack).ports # <<>>
    /\ LET p == Head(Head(stack).ports)
           mine == ports[p].addr = Head(stack).addr
       IN /\ ports' = [ports EXCEPT ![p].shown = IF mine THEN get_word(ports[p].addr) ELSE @]
          /\ stack' = [stack EXCEPT ![1].ports = Tail(@), ![1].calling = mine]
    /\ UNCHANGED <<words, list, cb>>

----------------------------------------------------------------------------
(* Callbacks *)

(* The part of a word a handle stands for *)
part(h, word) == IF h.kind = "APV" THEN <<word[h.bit]>> ELSE <<word[0], word[1]>>

(* The words a handle stands for *)
Stands(h) == IF h.kind = "memory" THEN Addr ELSE {h.address}

(* The address a callback is entered for: every one of a memory, and the
   member address, which is 0 when the index is a variable. *)
word_addr(h) ==
    CASE h.kind = "memory" -> -1
      [] h.kind = "Avar" -> 0
      [] OTHER -> h.address

(* vpip_array_word_change, vpip_array_change.  told is what the callback
   has seen of each word, while it is registered: at first, what its owner can read. *)
vpip_array_word_change(h) ==
    /\ OutsideRuns /\ Len(cb) < MaxCallbacks
    /\ cb' = Append(cb, [handle |-> h, word_addr |-> word_addr(h), cb_rtn |-> TRUE, freed |-> FALSE,
                         value_bits |-> part(h, get_word(h.address)),
                         told |-> [a \in Stands(h) |-> part(h, words[a])]])
    /\ list' = [list EXCEPT ![h.array] = <<Len(cb) + 1>> \o @]
    /\ UNCHANGED <<words, ports, stack>>

vpi_remove_cb_Now(c) ==
    /\ Removal /\ OutsideRuns /\ c \in DOMAIN cb /\ cb[c].cb_rtn
    /\ cb' = [cb EXCEPT ![c].cb_rtn = FALSE, ![c].freed = TRUE]
    /\ list' = [a \in Array |-> SelectSeq(list[a], LAMBDA d : d # c)]
    /\ UNCHANGED <<words, ports, stack>>

vpi_remove_cb(c) ==
    /\ Removal /\ OutsideRuns /\ c \in DOMAIN cb /\ cb[c].cb_rtn
    /\ cb' = [cb EXCEPT ![c].cb_rtn = FALSE, ![c].told = <<>>]
    /\ UNCHANGED <<words, ports, list, stack>>

Behind(array, c) ==
    LET l == list[array]
        i == CHOOSE j \in DOMAIN l : l[j] = c
    IN IF i < Len(l) THEN l[i + 1] ELSE nil

(* The walk turns to the callbacks when the ports are done. *)
first_callback ==
    /\ stack # <<>> /\ ~Head(stack).calling /\ Head(stack).ports = <<>> /\ ~Head(stack).listed
    /\ LET l == list[Head(stack).array]
       IN stack' = [stack EXCEPT ![1].next = IF l = <<>> THEN nil ELSE Head(l), ![1].listed = TRUE]
    /\ UNCHANGED <<words, ports, list, cb>>

(* array_word_part_callback compares with the bits it saw last. *)
test_value_callback_ready(c) ==
    LET h == cb[c].handle
        now == part(h, get_word(h.address))
    IN [ready |-> h.kind # "APV" \/ now # cb[c].value_bits,
        bits |-> IF h.kind = "APV" THEN now ELSE cb[c].value_bits]

AtCallback(c) == stack # <<>> /\ ~Head(stack).calling /\ c = Head(stack).next /\ c # nil

IsFor(c, addr) == cb[c].word_addr \in {addr, -1}

(* A callback that is not for this word, or whose part is as it was *)
pass_callback(c) ==
    /\ AtCallback(c) /\ ~cb[c].freed
    /\ LET f == Head(stack)
       IN /\ ~IsFor(c, f.addr)
             \/ (cb[c].cb_rtn /\ ~test_value_callback_ready(c).ready)
          /\ stack' = [stack EXCEPT ![1].next = Behind(f.array, c), ![1].prev = c]
    /\ UNCHANGED <<words, ports, list, cb>>

run_callback(c) ==
    /\ AtCallback(c) /\ ~cb[c].freed /\ cb[c].cb_rtn
    /\ LET f == Head(stack)
           test == test_value_callback_ready(c)
       IN /\ IsFor(c, f.addr) /\ test.ready
          /\ cb' = [cb EXCEPT ![c].value_bits = test.bits,
                              ![c].told = [a \in DOMAIN @ |->
                                  IF a = f.addr THEN part(cb[c].handle, words[a]) ELSE @[a]]]
          /\ stack' = [stack EXCEPT ![1].next = Behind(f.array, c), ![1].prev = c,
                                    ![1].calling = TRUE]
    /\ UNCHANGED <<words, ports, list>>

reap_callback_Skip(c) ==
    /\ AtCallback(c) /\ ~cb[c].freed /\ ~cb[c].cb_rtn
    /\ LET f == Head(stack)
           n == Behind(f.array, c)
       IN /\ IsFor(c, f.addr)
          /\ stack' = [stack EXCEPT ![1].next = IF n = nil THEN nil ELSE Behind(f.array, n)]
          /\ list' = [list EXCEPT ![f.array] = SelectSeq(@, LAMBDA d : d # c)]
    /\ cb' = [cb EXCEPT ![c].freed = TRUE]
    /\ UNCHANGED <<words, ports>>

reap_callback(c) ==
    /\ AtCallback(c) /\ ~cb[c].freed /\ ~cb[c].cb_rtn
    /\ LET f == Head(stack)
       IN /\ IsFor(c, f.addr)
          /\ stack' = [stack EXCEPT ![1].next = Behind(f.array, c)]
          /\ list' = [list EXCEPT ![f.array] = SelectSeq(@, LAMBDA d : d # c)]
    /\ cb' = [cb EXCEPT ![c].freed = TRUE]
    /\ UNCHANGED <<words, ports>>

(* What was called returns *)
called_returns ==
    /\ stack # <<>> /\ Head(stack).calling
    /\ stack' = [stack EXCEPT ![1].calling = FALSE]
    /\ UNCHANGED <<words, ports, list, cb>>

walk_ends ==
    /\ stack # <<>> /\ ~Head(stack).calling /\ Head(stack).listed /\ Head(stack).next = nil
    /\ stack' = Tail(stack)
    /\ UNCHANGED <<words, ports, list, cb>>

----------------------------------------------------------------------------
Init ==
    /\ words = [a \in Addr |-> XWord]
    /\ ports = [p \in Port |-> [addr |-> IF FixedAddr[p] = NoAddr THEN 0 ELSE FixedAddr[p],
                                shown |-> XWord]]
    /\ list = [a \in Array |-> <<>>]
    /\ cb = <<>>
    /\ stack = <<>>

Writes ==
    \/ \E array \in Array, address \in 0 .. Size, word \in Word :
           (array = "mem" \/ NetArray) /\ set_word(array, address, 0, <<word[0], word[1]>>)
    \/ \E address \in Addr, off \in 0 .. 1, b \in Bit : set_word("mem", address, off, <<b>>)
    \/ \E address \in Addr, word \in Word : net_change(address, word)

Walks ==
    \/ check_word_change \/ first_callback \/ called_returns \/ walk_ends
    \/ \E c \in DOMAIN cb : pass_callback(c) \/ run_callback(c) \/ reap_callback(c)

Next ==
    \/ Writes \/ Walks
    \/ \E p \in Port, address \in Addr \cup {NoAddr} : recv_vec4(p, address)
    \/ \E h \in Handle : vpip_array_word_change(h)
    \/ \E c \in DOMAIN cb : vpi_remove_cb(c)

Spec == Init /\ [][Next]_vars

----------------------------------------------------------------------------
(* Properties *)

(* At rest every read port has sent on the word its address selects now,
   whichever array the port was attached to and whatever was written from
   within the walks. *)
PortsCurrent ==
    stack = <<>> => \A p \in Port : ports[p].shown = get_word(ports[p].addr)

(* At rest a callback has been told of the present value of every word, or
   part of a word, that it was registered on. *)
CallbacksCurrent ==
    stack = <<>> => \A c \in DOMAIN cb : cb[c].cb_rtn =>
        \A a \in Stands(cb[c].handle) : cb[c].told[a] = part(cb[c].handle, words[a])

(* A callback on a part is called only when its bits differ from those of its
   last call. *)
CalledOnChange ==
    \A c \in DOMAIN cb : run_callback(c) /\ cb[c].handle.kind = "APV" =>
        /\ cb'[c].value_bits # cb[c].value_bits
        /\ cb'[c].value_bits = cb'[c].told[cb[c].handle.address]

(* No walk stands before a callback that another walk deleted. *)
NoDangling ==
    \A i \in DOMAIN stack : stack[i].next # nil => ~cb[stack[i].next].freed

============================================================================
