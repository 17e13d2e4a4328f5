------------------------------ MODULE Channels ------------------------------
(***************************************************************************)
(* Output channels: the table of multichannel descriptors and the growing  *)
(* table of file descriptors of vvp/vpi_mcd.cc, with the system tasks that *)
(* use them: $fopen and $fclose of vpi/sys_fileio.c, $fdisplay and         *)
(* $fstrobe of vpi/sys_display.c.                                          *)
(*                                                                         *)
(* Every successful open makes a new stream.  A multichannel descriptor is *)
(* the set of its channels, a file descriptor an index with bit 31; they   *)
(* are written Mcd(set) and Fd(index).  `last` keeps, for the line written *)
(* last, the streams it went to and the ones its descriptor named when the *)
(* task was called.                                                        *)
(***************************************************************************)
EXTENDS Integers, Sequences, SequencesExt, FiniteSets, FiniteSetTheorems, SequenceTheorems,
        TLAPS

CONSTANTS McdSize,     \* length of mcd_table, 31 in the code
          FdIncr,      \* FD_INCR, 32 in the code
          FdLimit,     \* the hard limit on fd_table_len, 1024 in the code
          Closed,      \* an entry without a file
          MaxStreams,  \* bound on the opens of a behaviour
          MaxStrobes,  \* bound on the $fstrobe calls of a step
          MaxTime      \* bound on the time steps

SizesAssumption ==
    /\ McdSize \in Nat \ {0} /\ FdIncr \in Nat /\ FdIncr >= 3
    /\ FdLimit \in Nat /\ FdLimit % FdIncr = 0
    /\ Closed \notin Nat

(* The streams that are open from the start. *)
Stdin == 1
Stdout == 2
Stderr == 3
Preopened == {Stdin, Stdout, Stderr}

VARIABLES mcd_table,  \* stream of every channel
          fd_table,   \* stream of every file descriptor; its length grows
          open,       \* streams that are open
          made,       \* number of streams made
          strobes,    \* read-only callbacks of this step, in order
          region, now,
          last

tables == <<mcd_table, fd_table, open, made>>
vars == <<tables, strobes, region, now, last>>

Channel == 0 .. McdSize - 1

(* A table of files with n more entries, without a file. *)
Longer(f, n) == f \o [i \in 1 .. n |-> Closed]

(* vpip_mcd_init *)
Init ==
    /\ mcd_table = [i \in Channel |-> IF i = 0 THEN Stdout ELSE Closed]
    /\ fd_table = Longer(<<Stdin, Stdout, Stderr>>, FdIncr - 3)
    /\ open = Preopened /\ made = 3
    /\ strobes = <<>> /\ region = "active" /\ now = 0
    /\ last = <<>>

----------------------------------------------------------------------------
(* Descriptors *)

IsMcd(d) == d.kind = "mcd"
Mcd(s) == [kind |-> "mcd", set |-> s]
Fd(i) == [kind |-> "fd", idx |-> i]

(* vpi_get_file *)
vpi_get_file(i) == IF i \in 0 .. Len(fd_table) - 1 THEN fd_table[i + 1] ELSE Closed

(* The streams a descriptor names now. *)
Streams(d) ==
    (IF IsMcd(d) THEN {mcd_table[i] : i \in d.set} ELSE {vpi_get_file(d.idx)}) \ {Closed}

(* The test every task makes before it uses a descriptor: a file descriptor
   has a file, and all the channels of a multichannel descriptor have one
   (vpi_mcd_vprintf of an empty string does not return EOF). *)
Valid(d) ==
    IF IsMcd(d) THEN \A i \in d.set : mcd_table[i] # Closed
    ELSE vpi_get_file(d.idx) # Closed

----------------------------------------------------------------------------
(* $fopen *)

FirstFree_mcd == {i \in Channel : mcd_table[i] = Closed
                                  /\ \A j \in Channel : j < i => mcd_table[j] # Closed}

(* vpi_mcd_open: the lowest channel without a file; 0 when there is none or
   when the file cannot be opened, which leaves the table as it was. *)
vpi_mcd_open ==
    /\ region = "active" /\ made < MaxStreams
    /\ \E i \in FirstFree_mcd :
           mcd_table' = [mcd_table EXCEPT ![i] = made + 1]
    /\ made' = made + 1 /\ open' = open \cup {made + 1}
    /\ UNCHANGED <<fd_table, strobes, region, now, last>>

FirstFree_fd == {i \in 0 .. Len(fd_table) - 1 :
                    fd_table[i + 1] = Closed
                    /\ \A j \in 0 .. i - 1 : fd_table[j + 1] # Closed}

(* The table with FD_INCR more entries. *)
Grown == Longer(fd_table, FdIncr)

(* vpi_fopen: a free entry, or a longer table up to the limit. *)
vpi_fopen ==
    /\ region = "active" /\ made < MaxStreams
    /\ \/ \E i \in FirstFree_fd : fd_table' = [fd_table EXCEPT ![i + 1] = made + 1]
       \/ /\ FirstFree_fd = {}
          /\ Len(fd_table) < FdLimit
          /\ fd_table' = [Grown EXCEPT ![Len(fd_table) + 1] = made + 1]
    /\ made' = made + 1 /\ open' = open \cup {made + 1}
    /\ UNCHANGED <<mcd_table, strobes, region, now, last>>

(* The open fails after the table has grown. *)
vpi_fopen_fails ==
    /\ region = "active"
    /\ FirstFree_fd = {}
    /\ Len(fd_table) < FdLimit
    /\ fd_table' = Grown
    /\ UNCHANGED <<mcd_table, open, made, strobes, region, now, last>>

----------------------------------------------------------------------------
(* $fclose: nothing unless the whole descriptor is valid; the channel of the
   standard output and the first three files are never closed. *)

Closing(d) == IF IsMcd(d) THEN d.set \ {0} ELSE {d.idx} \ (0 .. 2)

sys_fclose(d) ==
    /\ region = "active"
    /\ Valid(d) /\ d # Mcd({})
    /\ LET c == Closing(d)
       IN IF IsMcd(d)
          THEN /\ mcd_table' = [i \in Channel |-> IF i \in c THEN Closed ELSE mcd_table[i]]
               /\ open' = open \ {mcd_table[i] : i \in c}
               /\ UNCHANGED fd_table
          ELSE /\ fd_table' = [i \in DOMAIN fd_table |->
                                   IF i - 1 \in c THEN Closed ELSE fd_table[i]]
               /\ open' = open \ {fd_table[i + 1] : i \in c}
               /\ UNCHANGED mcd_table
    /\ UNCHANGED <<made, strobes, region, now, last>>

----------------------------------------------------------------------------
(* Writing *)

Line(d, wanted) == [to |-> Streams(d), for |-> wanted]

(* $fdisplay writes at once. *)
sys_fdisplay(d) ==
    /\ region = "active"
    /\ Valid(d) /\ d # Mcd({})
    /\ last' = <<Line(d, Streams(d))>>
    /\ UNCHANGED <<tables, strobes, region, now>>

(* $fstrobe keeps the descriptor for the end of the step. *)
sys_fstrobe(d) ==
    /\ region = "active" /\ Len(strobes) < MaxStrobes
    /\ Valid(d) /\ d # Mcd({})
    /\ strobes' = Append(strobes, [d |-> d, for |-> Streams(d)])
    /\ UNCHANGED <<tables, region, now, last>>

(* strobe_cb writes through the descriptor if it is valid now. *)
strobe_cb_Unchecked ==
    /\ region = "rosync" /\ strobes # <<>>
    /\ LET s == Head(strobes)
       IN last' = <<Line(s.d, s.for)>>
    /\ strobes' = Tail(strobes)
    /\ UNCHANGED <<tables, region, now>>

strobe_cb ==
    /\ region = "rosync" /\ strobes # <<>>
    /\ LET s == Head(strobes)
       IN last' = IF Valid(s.d) THEN <<Line(s.d, s.for)>> ELSE last
    /\ strobes' = Tail(strobes)
    /\ UNCHANGED <<tables, region, now>>

EndOfActive ==
    /\ region = "active" /\ region' = "rosync"
    /\ UNCHANGED <<tables, strobes, now, last>>

Tick ==
    /\ region = "rosync" /\ strobes = <<>> /\ now < MaxTime
    /\ region' = "active" /\ now' = now + 1
    /\ UNCHANGED <<tables, strobes, last>>

(* What a design may pass: any channel set, any index up to one past the end. *)
Descriptors == {Mcd(s) : s \in SUBSET Channel} \cup {Fd(i) : i \in 0 .. FdLimit}

Next ==
    \/ vpi_mcd_open
    \/ vpi_fopen
    \/ vpi_fopen_fails
    \/ \E d \in Descriptors : sys_fclose(d) \/ sys_fdisplay(d) \/ sys_fstrobe(d)
    \/ strobe_cb
    \/ EndOfActive
    \/ Tick

Spec == Init /\ [][Next]_vars

----------------------------------------------------------------------------
(* Properties *)

(* The type of every variable. *)
TypeOK ==
    /\ mcd_table \in [Channel -> 1 .. made \cup {Closed}]
    /\ fd_table \in Seq(1 .. made \cup {Closed}) /\ Len(fd_table) <= FdLimit
    /\ open \subseteq 1 .. made /\ made \in 3 .. MaxStreams
    /\ region \in {"active", "rosync"} /\ now \in 0 .. MaxTime
    /\ \A i \in DOMAIN strobes : strobes[i].for \subseteq 1 .. made

(* Every open stream but the standard output has exactly one descriptor that
   reaches it, whatever was opened and closed before and however often the
   table of files has grown: none is lost and none is overwritten. *)
OneDescriptor ==
    /\ \A s \in open \ {Stdout} :
           Cardinality({i \in Channel : mcd_table[i] = s})
             + Cardinality({i \in DOMAIN fd_table : fd_table[i] = s}) = 1
    /\ \A i \in Channel : mcd_table[i] # Closed => mcd_table[i] \in open
    /\ \A i \in DOMAIN fd_table : fd_table[i] # Closed => fd_table[i] \in open

(* The streams of the process stay open and stay where the code expects them,
   also when a descriptor that closes others includes them. *)
StandardKept ==
    /\ Preopened \subseteq open
    /\ mcd_table[0] = Stdout
    /\ fd_table[1] = Stdin /\ fd_table[2] = Stdout /\ fd_table[3] = Stderr

(* A line reaches all the streams of a descriptor or is not written: none of
   them is skipped because it was closed, also for a $fstrobe whose file was
   closed before the end of the step. *)
WholeLine ==
    \A i \in DOMAIN last :
        Cardinality(last[i].to) = Cardinality(last[i].for) /\ last[i].to # {}

(* A line reaches every stream it was meant for that is still open: a
   $fstrobe may write to a stream that was opened after the call, but only
   through the slot of one that was closed. *)
ReachesOpen == \A i \in DOMAIN last : last[i].for \cap open \subseteq last[i].to

(* A descriptor keeps naming the same stream until that stream is closed. *)
StableDescriptors ==
    /\ \A i \in Channel : mcd_table[i] \in open' => mcd_table'[i] = mcd_table[i]
    /\ \A i \in DOMAIN fd_table : fd_table[i] \in open' => fd_table'[i] = fd_table[i]

(* The line of a $fstrobe goes to the streams its descriptor named when the
   task was called. *)
StrobeGoesWhereAsked == \A i \in DOMAIN last : last[i].to = last[i].for

(* Of the tables m and f and the open streams o: every entry is open, no two
   entries are the same stream, but for the standard output, and every open
   stream has an entry. *)
Owned(m, f, o) ==
    /\ \A i \in Channel : m[i] # Closed => m[i] \in o
    /\ \A k \in DOMAIN f : f[k] # Closed => f[k] \in o
    /\ \A i, j \in Channel : m[i] = m[j] /\ m[i] # Closed => i = j
    /\ \A k, l \in DOMAIN f : f[k] = f[l] /\ f[k] # Closed => k = l
    /\ \A i \in Channel, k \in DOMAIN f : m[i] = f[k] /\ m[i] # Closed => m[i] = Stdout
    /\ \A s \in o : (\E i \in Channel : m[i] = s) \/ (\E k \in DOMAIN f : f[k] = s)

Standard(m, f, o) ==
    /\ Preopened \subseteq o
    /\ m[0] = Stdout /\ f[1] = Stdin /\ f[2] = Stdout /\ f[3] = Stderr

Typed(m, f, o, n) ==
    /\ m \in [Channel -> Nat \cup {Closed}]
    /\ f \in Seq(Nat \cup {Closed}) /\ Len(f) >= 3
    /\ n \in Nat /\ o \subseteq 1 .. n

TablesOK(m, f, o, n) == Typed(m, f, o, n) /\ Standard(m, f, o) /\ Owned(m, f, o)

ChannelsInv == TablesOK(mcd_table, fd_table, open, made)

(* A $fstrobe that waits: its descriptor named as many streams as it has
   channels, or one. *)
Size(d) == IF IsMcd(d) THEN Cardinality(d.set) ELSE 1

Request == {r \in [d : Descriptors, for : SUBSET Nat] :
               r.d # Mcd({}) /\ Cardinality(r.for) = Size(r.d)}

LinesInv == ChannelsInv /\ strobes \in Seq(Request) /\ WholeLine

(* The streams w are among those made, and to has the ones that are open. *)
Aim(w, to) == w \subseteq 1 .. made /\ w \cap open \subseteq to

(* So it is for the strobes that wait and for the line written last. *)
Aimed ==
    /\ \A i \in DOMAIN strobes : Aim(strobes[i].for, Streams(strobes[i].d))
    /\ \A i \in DOMAIN last : Aim(last[i].for, last[i].to)

AimInv == LinesInv /\ Aimed

----------------------------------------------------------------------------
(* Proofs, for tables of every size and any number of streams. *)

(* What the longer table g keeps of f, and what its n new entries are. *)
Extends(g, f, n) ==
    /\ g \in Seq(Nat \cup {Closed}) /\ Len(g) = Len(f) + n
    /\ \A k \in 1 .. Len(f) : g[k] = f[k]
    /\ \A k \in Len(f) + 1 .. Len(f) + n : g[k] = Closed

(* A longer table has the old entries and new ones without a file. *)
LEMMA LongerTable ==
  ASSUME NEW f \in Seq(Nat \cup {Closed}), NEW n \in Nat
  PROVE  Extends(Longer(f, n), f, n)
<1>0. PICK g : g = Longer(f, n)
  OBVIOUS
<1>1. PICK e : e = [i \in 1 .. n |-> Closed]
  OBVIOUS
<1>2. e \in Seq(Nat \cup {Closed}) /\ Len(e) = n /\ \A i \in 1 .. n : e[i] = Closed
  BY <1>1
<1>3. /\ g \in Seq(Nat \cup {Closed}) /\ Len(g) = Len(f) + Len(e)
      /\ \A k \in 1 .. Len(f) + Len(e) : g[k] = IF k <= Len(f) THEN f[k] ELSE e[k - Len(f)]
  BY <1>0, <1>1, <1>2, ConcatProperties DEF Longer
<1>4. \A k \in Len(f) + 1 .. Len(f) + n : g[k] = Closed
  <2> SUFFICES ASSUME NEW k \in Len(f) + 1 .. Len(f) + n PROVE g[k] = Closed
    OBVIOUS
  <2>1. Len(f) \in Nat /\ k - Len(f) \in 1 .. n /\ ~(k <= Len(f)) /\ k \in 1 .. Len(f) + Len(e)
    BY <1>2
  <2> QED BY <1>2, <1>3, <2>1
<1>5. \A k \in 1 .. Len(f) : g[k] = f[k]
  <2> SUFFICES ASSUME NEW k \in 1 .. Len(f) PROVE g[k] = f[k]
    OBVIOUS
  <2>1. Len(f) \in Nat /\ k <= Len(f) /\ k \in 1 .. Len(f) + Len(e)
    BY <1>2
  <2> QED BY <1>3, <2>1
<1> QED BY <1>0, <1>2, <1>3, <1>4, <1>5 DEF Extends

(* Growing the table of files changes no descriptor. *)
LEMMA GrowKeeps ==
  ASSUME SizesAssumption, NEW m, NEW f, NEW o, NEW n, TablesOK(m, f, o, n),
         NEW g, g = Longer(f, FdIncr)
  PROVE  TablesOK(m, g, o, n) /\ Extends(g, f, FdIncr)
<1>1. f \in Seq(Nat \cup {Closed}) /\ Len(f) >= 3 /\ FdIncr \in Nat /\ FdIncr >= 3
  BY DEF TablesOK, Typed, SizesAssumption
<1>2. /\ g \in Seq(Nat \cup {Closed}) /\ Len(g) = Len(f) + FdIncr
      /\ \A k \in 1 .. Len(f) : g[k] = f[k]
      /\ \A k \in Len(f) + 1 .. Len(f) + FdIncr : g[k] = Closed
  <2>1. f \in Seq(Nat \cup {Closed}) /\ FdIncr \in Nat
    BY <1>1
  <2>2. Extends(Longer(f, FdIncr), f, FdIncr)
    BY <2>1, LongerTable
  <2> QED BY <2>2 DEF Extends
<1>3. /\ DOMAIN g = 1 .. Len(f) + FdIncr /\ DOMAIN f = 1 .. Len(f) /\ Len(f) \in Nat
      /\ \A k \in DOMAIN g : g[k] # Closed => k \in DOMAIN f /\ g[k] = f[k]
      /\ \A k \in DOMAIN f : k \in DOMAIN g /\ g[k] = f[k]
  <2>1. DOMAIN g = 1 .. Len(f) + FdIncr /\ DOMAIN f = 1 .. Len(f) /\ Len(f) \in Nat
    BY <1>1, <1>2
  <2>2. \A k \in DOMAIN f : k \in DOMAIN g /\ g[k] = f[k]
    BY <1>1, <1>2, <2>1
  <2>3. \A k \in DOMAIN g : k \in DOMAIN f \/ k \in Len(f) + 1 .. Len(f) + FdIncr
    BY <1>1, <2>1
  <2> QED BY <1>2, <2>1, <2>2, <2>3
<1>4. Typed(m, g, o, n)
  BY <1>1, <1>2 DEF TablesOK, Typed
<1>5. Standard(m, g, o)
  <2>1. g[1] = f[1] /\ g[2] = f[2] /\ g[3] = f[3]
    BY <1>1, <1>2
  <2> QED BY <2>1 DEF TablesOK, Standard
<1>6. Owned(m, g, o)
  BY <1>3 DEF TablesOK, Owned
<1> QED BY <1>2, <1>4, <1>5, <1>6 DEF TablesOK, Extends

(* A new stream in a channel without a file. *)
LEMMA OpenChannel ==
  ASSUME SizesAssumption, NEW m, NEW f, NEW o, NEW n, TablesOK(m, f, o, n),
         NEW i \in Channel, m[i] = Closed, NEW c, c = [m EXCEPT ![i] = n + 1]
  PROVE  TablesOK(c, f, o \cup {n + 1}, n + 1)
<1>1. /\ m \in [Channel -> Nat \cup {Closed}] /\ n \in Nat /\ o \subseteq 1 .. n
      /\ Closed \notin Nat /\ n + 1 \notin o /\ Closed # n + 1
  BY DEF TablesOK, Typed, SizesAssumption
<1>2. /\ c \in [Channel -> Nat \cup {Closed}] /\ c[i] = n + 1
      /\ \A j \in Channel : j # i => c[j] = m[j]
  BY <1>1
<1>3. Typed(c, f, o \cup {n + 1}, n + 1)
  BY <1>1, <1>2 DEF TablesOK, Typed
<1>4. Standard(c, f, o \cup {n + 1})
  <2>1. i # 0 /\ 0 \in Channel
    BY <1>1 DEF TablesOK, Standard, Stdout, Channel, SizesAssumption
  <2> QED BY <1>2, <2>1 DEF TablesOK, Standard
<1>5. Owned(c, f, o \cup {n + 1})
  <2>1. \A j \in Channel : c[j] # Closed => c[j] \in o \cup {n + 1}
    BY <1>2 DEF TablesOK, Owned
  <2>2. \A j, k \in Channel : c[j] = c[k] /\ c[j] # Closed => j = k
    BY <1>1, <1>2 DEF TablesOK, Owned
  <2>3. \A j \in Channel, k \in DOMAIN f : c[j] = f[k] /\ c[j] # Closed => c[j] = Stdout
    BY <1>1, <1>2 DEF TablesOK, Owned
  <2>4. \A s \in o \cup {n + 1} : (\E j \in Channel : c[j] = s) \/ (\E k \in DOMAIN f : f[k] = s)
    <3> SUFFICES ASSUME NEW s \in o \cup {n + 1}
                 PROVE  (\E j \in Channel : c[j] = s) \/ (\E k \in DOMAIN f : f[k] = s)
      OBVIOUS
    <3>1. CASE s = n + 1
      BY <1>2, <3>1
    <3>2. CASE s \in o
      <4>1. s # Closed
        BY <1>1, <3>2
      <4> QED BY <1>2, <3>2, <4>1 DEF TablesOK, Owned
    <3> QED BY <3>1, <3>2
  <2> QED BY <2>1, <2>2, <2>3, <2>4 DEF TablesOK, Owned
<1> QED BY <1>3, <1>4, <1>5 DEF TablesOK

(* A new stream in an entry without a file. *)
LEMMA OpenEntry ==
  ASSUME SizesAssumption, NEW m, NEW f, NEW o, NEW n, TablesOK(m, f, o, n),
         NEW i \in DOMAIN f, f[i] = Closed, NEW c, c = [f EXCEPT ![i] = n + 1]
  PROVE  TablesOK(m, c, o \cup {n + 1}, n + 1)
<1>1. /\ f \in Seq(Nat \cup {Closed}) /\ n \in Nat /\ o \subseteq 1 .. n
      /\ Closed \notin Nat /\ n + 1 \notin o /\ Closed # n + 1 /\ Len(f) >= 3
  BY DEF TablesOK, Typed, SizesAssumption
<1>2. /\ c \in Seq(Nat \cup {Closed}) /\ Len(c) = Len(f) /\ DOMAIN c = DOMAIN f
      /\ c[i] = n + 1 /\ \A j \in DOMAIN f : j # i => c[j] = f[j]
  BY <1>1
<1>3. Typed(m, c, o \cup {n + 1}, n + 1)
  BY <1>1, <1>2 DEF TablesOK, Typed
<1>4. Standard(m, c, o \cup {n + 1})
  <2>1. i # 1 /\ i # 2 /\ i # 3 /\ 1 \in DOMAIN f /\ 2 \in DOMAIN f /\ 3 \in DOMAIN f
    BY <1>1 DEF TablesOK, Standard, Stdin, Stdout, Stderr
  <2> QED BY <1>2, <2>1 DEF TablesOK, Standard
<1>5. Owned(m, c, o \cup {n + 1})
  <2>1. \A k \in DOMAIN c : c[k] # Closed => c[k] \in o \cup {n + 1}
    BY <1>2 DEF TablesOK, Owned
  <2>2. \A j, k \in DOMAIN c : c[j] = c[k] /\ c[j] # Closed => j = k
    BY <1>1, <1>2 DEF TablesOK, Owned
  <2>3. \A j \in Channel, k \in DOMAIN c : m[j] = c[k] /\ m[j] # Closed => m[j] = Stdout
    BY <1>1, <1>2 DEF TablesOK, Owned
  <2>4. \A s \in o \cup {n + 1} : (\E j \in Channel : m[j] = s) \/ (\E k \in DOMAIN c : c[k] = s)
    <3> SUFFICES ASSUME NEW s \in o \cup {n + 1}
                 PROVE  (\E j \in Channel : m[j] = s) \/ (\E k \in DOMAIN c : c[k] = s)
      OBVIOUS
    <3>1. CASE s = n + 1
      BY <1>2, <3>1
    <3>2. CASE s \in o
      <4>1. s # Closed
        BY <1>1, <3>2
      <4> QED BY <1>2, <3>2, <4>1 DEF TablesOK, Owned
    <3> QED BY <3>1, <3>2
  <2> QED BY <2>1, <2>2, <2>3, <2>4 DEF TablesOK, Owned
<1> QED BY <1>3, <1>4, <1>5 DEF TablesOK

(* Channels are closed, with their streams; that of the standard output is not
   one of them. *)
LEMMA CloseChannels ==
  ASSUME SizesAssumption, NEW m, NEW f, NEW o, NEW n, TablesOK(m, f, o, n),
         NEW s \in SUBSET Channel, 0 \notin s, \A i \in s : m[i] # Closed,
         NEW c, c = [i \in Channel |-> IF i \in s THEN Closed ELSE m[i]],
         NEW p, p = o \ {m[i] : i \in s}
  PROVE  TablesOK(c, f, p, n)
<1>0. 0 \in Channel /\ Closed \notin Nat /\ Stdout # Closed
  BY DEF Channel, SizesAssumption, Stdout
<1>1. /\ m \in [Channel -> Nat \cup {Closed}] /\ o \subseteq 1 .. n /\ 0 \in Channel
      /\ m[0] = Stdout /\ Stdout # Closed /\ Closed \notin o /\ Closed \notin Nat
  <2>1. o \subseteq 1 .. n /\ \A k \in 1 .. n : k \in Nat
    BY DEF TablesOK, Typed
  <2>2. Closed \notin o
    BY <1>0, <2>1
  <2> QED BY <1>0, <2>1, <2>2 DEF TablesOK, Typed, Standard
<1>2. \A i \in Channel : c[i] = IF i \in s THEN Closed ELSE m[i]
  OBVIOUS
<1>3. \A i \in s : m[i] # Stdout
  BY <1>1 DEF TablesOK, Owned
<1>4. Typed(c, f, p, n)
  BY <1>1 DEF TablesOK, Typed
<1>5. \A k \in DOMAIN f : f[k] # Closed => f[k] \in p
  BY <1>3 DEF TablesOK, Owned
<1>6. Standard(c, f, p)
  <2>1. 1 \in DOMAIN f /\ 2 \in DOMAIN f /\ 3 \in DOMAIN f
    BY DEF TablesOK, Typed
  <2>2. /\ f[1] = Stdin /\ f[2] = Stdout /\ f[3] = Stderr /\ Stdin # Closed
        /\ Stderr # Closed
    BY <1>1 DEF TablesOK, Standard, Stdin, Stderr
  <2>3. Preopened \subseteq p
    BY <1>1, <1>5, <2>1, <2>2 DEF Preopened
  <2> QED BY <1>1, <1>2, <2>2, <2>3 DEF Standard
<1>7. Owned(c, f, p)
  <2>1. \A i \in Channel : c[i] # Closed => c[i] \in p
    BY <1>2 DEF TablesOK, Owned
  <2>2. \A i, j \in Channel : c[i] = c[j] /\ c[i] # Closed => i = j
    BY <1>2 DEF TablesOK, Owned
  <2>3. \A i \in Channel, k \in DOMAIN f : c[i] = f[k] /\ c[i] # Closed => c[i] = Stdout
    BY <1>2 DEF TablesOK, Owned
  <2>4. \A t \in p : (\E i \in Channel : c[i] = t) \/ (\E k \in DOMAIN f : f[k] = t)
    BY <1>2 DEF TablesOK, Owned
  <2> QED BY <1>5, <2>1, <2>2, <2>3, <2>4 DEF TablesOK, Owned
<1> QED BY <1>4, <1>6, <1>7 DEF TablesOK

(* A file is closed, with its stream; the first three are not. *)
LEMMA CloseEntry ==
  ASSUME SizesAssumption, NEW m, NEW f, NEW o, NEW n, TablesOK(m, f, o, n),
         NEW e \in DOMAIN f, e > 3, f[e] # Closed,
         NEW c, c = [i \in DOMAIN f |-> IF i = e THEN Closed ELSE f[i]],
         NEW p, p = o \ {f[e]}
  PROVE  TablesOK(m, c, p, n)
<1>1. /\ f \in Seq(Nat \cup {Closed}) /\ Len(f) >= 3 /\ o \subseteq 1 .. n /\ 0 \in Channel
      /\ 1 \in DOMAIN f /\ 2 \in DOMAIN f /\ 3 \in DOMAIN f
      /\ f[1] = Stdin /\ f[2] = Stdout /\ f[3] = Stderr /\ Closed \notin Nat
  BY DEF TablesOK, Typed, Standard, Channel, SizesAssumption
<1>2. /\ c \in Seq(Nat \cup {Closed}) /\ Len(c) = Len(f) /\ DOMAIN c = DOMAIN f
      /\ \A i \in DOMAIN f : c[i] = IF i = e THEN Closed ELSE f[i]
  BY <1>1
<1>3. f[e] # Stdin /\ f[e] # Stdout /\ f[e] # Stderr
  <2>1. Stdin # Closed /\ Stdout # Closed /\ Stderr # Closed
    BY <1>1 DEF Stdin, Stdout, Stderr
  <2> QED BY <1>1, <2>1 DEF TablesOK, Owned
<1>4. Typed(m, c, p, n)
  BY <1>1, <1>2 DEF TablesOK, Typed
<1>5. Standard(m, c, p)
  BY <1>1, <1>2, <1>3 DEF TablesOK, Standard, Preopened
<1>6. Owned(m, c, p)
  <2>1. \A i \in Channel : m[i] # Closed => m[i] \in p
    BY <1>3 DEF TablesOK, Owned
  <2>2. \A k \in DOMAIN c : c[k] # Closed => c[k] \in p
    BY <1>2 DEF TablesOK, Owned
  <2>3. \A k, l \in DOMAIN c : c[k] = c[l] /\ c[k] # Closed => k = l
    BY <1>2 DEF TablesOK, Owned
  <2>4. \A i \in Channel, k \in DOMAIN c : m[i] = c[k] /\ m[i] # Closed => m[i] = Stdout
    BY <1>2 DEF TablesOK, Owned
  <2>5. \A t \in p : (\E i \in Channel : m[i] = t) \/ (\E k \in DOMAIN c : c[k] = t)
    BY <1>2 DEF TablesOK, Owned
  <2> QED BY <2>1, <2>2, <2>3, <2>4, <2>5 DEF TablesOK, Owned
<1> QED BY <1>4, <1>5, <1>6 DEF TablesOK

(* What changes no table keeps the invariant and every descriptor. *)
LEMMA TablesUnchanged ==
  ASSUME ChannelsInv, UNCHANGED tables
  PROVE  ChannelsInv' /\ StableDescriptors
  BY DEF ChannelsInv, StableDescriptors, tables

(* The effect of every step on the tables. *)
LEMMA ChannelsStep ==
  ASSUME SizesAssumption, ChannelsInv, [Next]_vars
  PROVE  ChannelsInv' /\ StableDescriptors
<1>0. Closed \notin Nat /\ \A k \in 1 .. made : k \in Nat
  BY DEF ChannelsInv, TablesOK, Typed, SizesAssumption
<1>1. /\ mcd_table \in [Channel -> Nat \cup {Closed}] /\ fd_table \in Seq(Nat \cup {Closed})
      /\ made \in Nat /\ open \subseteq 1 .. made /\ Closed \notin Nat
      /\ DOMAIN fd_table = 1 .. Len(fd_table) /\ Len(fd_table) \in Nat /\ Len(fd_table) >= 3
  BY DEF ChannelsInv, TablesOK, Typed, SizesAssumption
<1>8. made + 1 \in Nat /\ made + 1 # Closed /\ \A s \in open : s # Closed
  <2>1. made + 1 \in Nat
    BY <1>1
  <2> QED BY <1>0, <1>1, <2>1
<1>2. CASE vpi_mcd_open
  <2>1. PICK i \in FirstFree_mcd : mcd_table' = [mcd_table EXCEPT ![i] = made + 1]
    BY <1>2 DEF vpi_mcd_open
  <2>2. /\ made' = made + 1 /\ open' = open \cup {made + 1} /\ fd_table' = fd_table
        /\ i \in Channel /\ mcd_table[i] = Closed
    BY <1>2 DEF vpi_mcd_open, FirstFree_mcd
  <2>3. ChannelsInv'
    BY <2>1, <2>2, OpenChannel DEF ChannelsInv
  <2>4. \A j \in Channel : mcd_table[j] \in open' => mcd_table'[j] = mcd_table[j]
    <3>1. Closed \notin open'
      BY <1>0, <1>1, <1>8, <2>2
    <3>2. \A j \in Channel : j # i => mcd_table'[j] = mcd_table[j]
      BY <1>1, <2>1, <2>2
    <3> QED BY <2>2, <3>1, <3>2
  <2>5. StableDescriptors
    BY <2>2, <2>4 DEF StableDescriptors
  <2> QED BY <2>3, <2>5
<1>3. CASE vpi_fopen
  <2>0. made' = made + 1 /\ open' = open \cup {made + 1} /\ mcd_table' = mcd_table
    BY <1>3 DEF vpi_fopen
  <2>1. CASE \E i \in FirstFree_fd : fd_table' = [fd_table EXCEPT ![i + 1] = made + 1]
    <3>1. PICK i \in FirstFree_fd : fd_table' = [fd_table EXCEPT ![i + 1] = made + 1]
      BY <2>1
    <3>2. i + 1 \in DOMAIN fd_table /\ fd_table[i + 1] = Closed
      BY <1>1 DEF FirstFree_fd
    <3>3. ChannelsInv'
      BY <2>0, <3>1, <3>2, OpenEntry DEF ChannelsInv
    <3>4. \A j \in DOMAIN fd_table : fd_table[j] \in open' => fd_table'[j] = fd_table[j]
      <4>1. Closed \notin open'
        BY <1>0, <1>1, <1>8, <2>0
      <4>2. \A j \in DOMAIN fd_table : j # i + 1 => fd_table'[j] = fd_table[j]
        BY <1>1, <3>1, <3>2
      <4> QED BY <3>2, <4>1, <4>2
    <3>5. StableDescriptors
      BY <2>0, <3>4 DEF StableDescriptors
    <3> QED BY <3>3, <3>5
  <2>2. CASE fd_table' = [Grown EXCEPT ![Len(fd_table) + 1] = made + 1]
    <3>1. PICK g : g = Grown
      OBVIOUS
    <3>2. /\ TablesOK(mcd_table, g, open, made) /\ Len(g) = Len(fd_table) + FdIncr
          /\ (\A k \in 1 .. Len(fd_table) : g[k] = fd_table[k]) /\ g[Len(fd_table) + 1] = Closed
      <4>1. TablesOK(mcd_table, fd_table, open, made) /\ g = Longer(fd_table, FdIncr)
        BY <3>1 DEF ChannelsInv, Grown
      <4>2. TablesOK(mcd_table, g, open, made) /\ Extends(g, fd_table, FdIncr)
        BY <4>1, GrowKeeps
      <4>3. Len(fd_table) + 1 \in Len(fd_table) + 1 .. Len(fd_table) + FdIncr
        BY <1>1 DEF SizesAssumption
      <4> QED BY <4>2, <4>3 DEF Extends
    <3>3. g \in Seq(Nat \cup {Closed}) /\ FdIncr \in Nat /\ FdIncr >= 3
      BY <3>2 DEF TablesOK, Typed, SizesAssumption
    <3>4. Len(fd_table) + 1 \in DOMAIN g
      BY <1>1, <3>2, <3>3
    <3>5. fd_table' = [g EXCEPT ![Len(fd_table) + 1] = made + 1]
      BY <2>2, <3>1
    <3>6. ChannelsInv'
      BY <2>0, <3>2, <3>4, <3>5, OpenEntry DEF ChannelsInv
    <3>7. \A k \in 1 .. Len(fd_table) : fd_table'[k] = fd_table[k]
      BY <1>1, <3>2, <3>3, <3>5
    <3>8. StableDescriptors
      BY <1>1, <2>0, <3>7 DEF StableDescriptors
    <3> QED BY <3>6, <3>8
  <2> QED BY <1>3, <2>1, <2>2 DEF vpi_fopen
<1>4. CASE vpi_fopen_fails
  <2>1. fd_table' = Grown /\ UNCHANGED <<mcd_table, open, made>>
    BY <1>4 DEF vpi_fopen_fails
  <2>2. PICK g : g = Grown
    OBVIOUS
  <2>3. TablesOK(mcd_table, g, open, made) /\ \A k \in 1 .. Len(fd_table) : g[k] = fd_table[k]
    <3>1. TablesOK(mcd_table, fd_table, open, made) /\ g = Longer(fd_table, FdIncr)
      BY <2>2 DEF ChannelsInv, Grown
    <3>2. TablesOK(mcd_table, g, open, made) /\ Extends(g, fd_table, FdIncr)
      BY <3>1, GrowKeeps
    <3> QED BY <3>2 DEF Extends
  <2>4. ChannelsInv'
    BY <2>1, <2>2, <2>3 DEF ChannelsInv
  <2>5. StableDescriptors
    BY <1>1, <2>1, <2>2, <2>3 DEF StableDescriptors
  <2> QED BY <2>4, <2>5
<1>5. CASE \E d \in Descriptors : sys_fclose(d)
  <2>1. PICK d \in Descriptors : sys_fclose(d)
    BY <1>5
  <2>2. made' = made /\ Valid(d)
    BY <2>1 DEF sys_fclose
  <2>3. CASE \E s \in SUBSET Channel : d = Mcd(s)
    <3>1. PICK s \in SUBSET Channel : d = Mcd(s)
      BY <2>3
    <3>2. IsMcd(d) /\ d.set = s
      BY <3>1 DEF Mcd, IsMcd
    <3>3. PICK c : c = s \ {0}
      OBVIOUS
    <3>4. c \in SUBSET Channel /\ 0 \notin c /\ \A i \in c : mcd_table[i] # Closed
      BY <2>2, <3>2, <3>3 DEF Valid
    <3>5. /\ mcd_table' = [i \in Channel |-> IF i \in c THEN Closed ELSE mcd_table[i]]
          /\ open' = open \ {mcd_table[i] : i \in c} /\ fd_table' = fd_table
      BY <2>1, <3>2, <3>3 DEF sys_fclose, Closing
    <3>6. ChannelsInv'
      BY <2>2, <3>4, <3>5, CloseChannels DEF ChannelsInv
    <3>7. StableDescriptors
      BY <3>5 DEF StableDescriptors
    <3> QED BY <3>6, <3>7
  <2>4. CASE \E i \in 0 .. FdLimit : d = Fd(i)
    <3>1. PICK i \in 0 .. FdLimit : d = Fd(i)
      BY <2>4
    <3>2. ~IsMcd(d) /\ d.idx = i
      BY <3>1 DEF Fd, IsMcd
    <3>3. i + 1 \in DOMAIN fd_table /\ fd_table[i + 1] # Closed
      BY <1>1, <2>2, <3>2 DEF Valid, vpi_get_file
    <3>4. /\ fd_table' = [k \in DOMAIN fd_table |->
                            IF k - 1 \in {i} \ (0 .. 2) THEN Closed ELSE fd_table[k]]
          /\ open' = open \ {fd_table[k + 1] : k \in {i} \ (0 .. 2)}
          /\ mcd_table' = mcd_table
      BY <2>1, <3>2 DEF sys_fclose, Closing
    <3>5. CASE i \in 0 .. 2
      <4>1. {i} \ (0 .. 2) = {}
        BY <3>5
      <4>2. open' = open /\ fd_table' = [k \in DOMAIN fd_table |-> fd_table[k]]
        BY <3>4, <4>1
      <4>3. fd_table' = fd_table
        BY <1>1, <4>2
      <4> QED BY <2>2, <3>4, <4>2, <4>3, TablesUnchanged DEF tables
    <3>6. CASE i \notin 0 .. 2
      <4>1. {i} \ (0 .. 2) = {i} /\ i + 1 > 3
        BY <3>6
      <4>2. PICK e : e = i + 1
        OBVIOUS
      <4>3. \A k \in DOMAIN fd_table : k - 1 \in {i} \ (0 .. 2) <=> k = e
        BY <1>1, <4>1, <4>2
      <4>4. fd_table' = [k \in DOMAIN fd_table |-> IF k = e THEN Closed ELSE fd_table[k]]
        BY <3>4, <4>3
      <4>5. open' = open \ {fd_table[e]}
        BY <3>4, <4>1, <4>2
      <4>6. e \in DOMAIN fd_table /\ e > 3 /\ fd_table[e] # Closed
        BY <3>3, <4>1, <4>2
      <4>7. ChannelsInv'
        BY <2>2, <3>4, <4>4, <4>5, <4>6, CloseEntry DEF ChannelsInv
      <4>8. StableDescriptors
        BY <3>4, <4>4, <4>5 DEF StableDescriptors
      <4> QED BY <4>7, <4>8
    <3> QED BY <3>5, <3>6
  <2> QED BY <2>3, <2>4 DEF Descriptors
<1>6. CASE UNCHANGED tables
  BY <1>6, TablesUnchanged
<1>7. CASE \/ \E d \in Descriptors : sys_fdisplay(d) \/ sys_fstrobe(d)
           \/ strobe_cb \/ EndOfActive \/ Tick \/ UNCHANGED vars
  <2>1. UNCHANGED tables
    BY <1>7 DEF sys_fdisplay, sys_fstrobe, strobe_cb, EndOfActive, Tick, vars
  <2> QED BY <1>6, <2>1
<1> QED BY <1>2, <1>3, <1>4, <1>5, <1>7 DEF Next

(* vpip_mcd_init makes such tables. *)
LEMMA ChannelsFirst ==
  ASSUME SizesAssumption, Init
  PROVE  ChannelsInv
<1>1. FdIncr - 3 \in Nat /\ McdSize \in Nat \ {0} /\ Closed \notin Nat
  BY DEF SizesAssumption
<1>2. 0 \in Channel /\ Stdin = 1 /\ Stdout = 2 /\ Stderr = 3 /\ Preopened = {1, 2, 3}
  BY <1>1 DEF Channel, Stdin, Stdout, Stderr, Preopened
<1>3. PICK b : b = <<1, 2, 3>>
  OBVIOUS
<1>4. b \in Seq(Nat \cup {Closed}) /\ Len(b) = 3 /\ b[1] = 1 /\ b[2] = 2 /\ b[3] = 3
  BY <1>3
<1>5. /\ fd_table = Longer(b, FdIncr - 3) /\ open = {1, 2, 3} /\ made = 3
      /\ mcd_table = [i \in Channel |-> IF i = 0 THEN 2 ELSE Closed]
  BY <1>2, <1>3 DEF Init
<1>6. /\ fd_table \in Seq(Nat \cup {Closed}) /\ Len(fd_table) = 3 + (FdIncr - 3)
      /\ \A k \in 1 .. 3 : fd_table[k] = b[k]
      /\ \A k \in 3 + 1 .. 3 + (FdIncr - 3) : fd_table[k] = Closed
  <2>1. fd_table = Longer(b, FdIncr - 3)
    BY <1>5
  <2>2. /\ fd_table \in Seq(Nat \cup {Closed}) /\ Len(fd_table) = Len(b) + (FdIncr - 3)
        /\ \A k \in 1 .. Len(b) : fd_table[k] = b[k]
        /\ \A k \in Len(b) + 1 .. Len(b) + (FdIncr - 3) : fd_table[k] = Closed
    <3>1. Extends(Longer(b, FdIncr - 3), b, FdIncr - 3)
      BY <1>1, <1>4, LongerTable
    <3> QED BY <2>1, <3>1 DEF Extends
  <2> QED BY <1>4, <2>2
<1>7. /\ fd_table[1] = 1 /\ fd_table[2] = 2 /\ fd_table[3] = 3
      /\ 1 \in DOMAIN fd_table /\ 2 \in DOMAIN fd_table /\ 3 \in DOMAIN fd_table
      /\ \A k \in DOMAIN fd_table : k \in {1, 2, 3} \/ fd_table[k] = Closed
  BY <1>1, <1>4, <1>6
<1>8. Typed(mcd_table, fd_table, open, made)
  BY <1>1, <1>5, <1>6 DEF Typed
<1>9. Standard(mcd_table, fd_table, open)
  BY <1>2, <1>5, <1>7 DEF Standard
<1>10. Owned(mcd_table, fd_table, open)
  <2>1. \A i \in Channel : mcd_table[i] = IF i = 0 THEN 2 ELSE Closed
    BY <1>5
  <2>2. /\ \A i \in Channel : mcd_table[i] # Closed => mcd_table[i] \in open
        /\ \A k \in DOMAIN fd_table : fd_table[k] # Closed => fd_table[k] \in open
    BY <1>1, <1>2, <1>5, <1>7, <2>1
  <2>3. /\ \A i, j \in Channel : mcd_table[i] = mcd_table[j] /\ mcd_table[i] # Closed => i = j
        /\ \A i \in Channel, k \in DOMAIN fd_table :
              mcd_table[i] = fd_table[k] /\ mcd_table[i] # Closed => mcd_table[i] = Stdout
    BY <1>1, <1>2, <2>1
  <2>4. \A k, l \in DOMAIN fd_table : fd_table[k] = fd_table[l] /\ fd_table[k] # Closed => k = l
    BY <1>7
  <2>5. \A s \in open : \E k \in DOMAIN fd_table : fd_table[k] = s
    BY <1>5, <1>7
  <2> QED BY <2>2, <2>3, <2>4, <2>5 DEF Owned
<1> QED BY <1>8, <1>9, <1>10 DEF ChannelsInv, TablesOK

(* The tables count as OneDescriptor says. *)
LEMMA OneEach ==
  ASSUME SizesAssumption, ChannelsInv
  PROVE  OneDescriptor /\ StandardKept
<1>1. StandardKept
  BY DEF ChannelsInv, TablesOK, Standard, StandardKept
<1>2. ASSUME NEW s \in open \ {Stdout}
      PROVE  Cardinality({i \in Channel : mcd_table[i] = s})
               + Cardinality({i \in DOMAIN fd_table : fd_table[i] = s}) = 1
  <2>1. s # Closed /\ s # Stdout
    BY DEF ChannelsInv, TablesOK, Typed, SizesAssumption
  <2>2. CASE \E i \in Channel : mcd_table[i] = s
    <3>1. PICK i \in Channel : mcd_table[i] = s
      BY <2>2
    <3>2. {k \in Channel : mcd_table[k] = s} = {i}
      BY <2>1, <3>1 DEF ChannelsInv, TablesOK, Owned
    <3>3. {k \in DOMAIN fd_table : fd_table[k] = s} = {}
      BY <2>1, <3>1 DEF ChannelsInv, TablesOK, Owned
    <3>4. Cardinality({i}) = 1 /\ Cardinality({}) = 0
      BY FS_Singleton, FS_EmptySet
    <3> QED BY <3>2, <3>3, <3>4
  <2>3. CASE ~\E i \in Channel : mcd_table[i] = s
    <3>1. PICK i \in DOMAIN fd_table : fd_table[i] = s
      BY <2>3 DEF ChannelsInv, TablesOK, Owned
    <3>2. {k \in DOMAIN fd_table : fd_table[k] = s} = {i}
      BY <2>1, <3>1 DEF ChannelsInv, TablesOK, Owned
    <3>3. {k \in Channel : mcd_table[k] = s} = {}
      BY <2>3
    <3>4. Cardinality({i}) = 1 /\ Cardinality({}) = 0
      BY FS_Singleton, FS_EmptySet
    <3> QED BY <3>2, <3>3, <3>4
  <2> QED BY <2>2, <2>3
<1> QED BY <1>1, <1>2 DEF OneDescriptor, ChannelsInv, TablesOK, Owned

(* Whatever is opened and closed, and however often the table of files grows,
   every open stream has exactly one descriptor (the standard output a channel
   and a file), every entry is open, and the streams of the process stay where
   the code expects them (vpi_mcd_open, vpi_fopen and vpi_mcd_close of
   vpi_mcd.cc). *)
THEOREM DescriptorsOwned == SizesAssumption => (Spec => [](OneDescriptor /\ StandardKept))
<1> SUFFICES ASSUME SizesAssumption
             PROVE  Spec => [](OneDescriptor /\ StandardKept)
  OBVIOUS
<1>1. Init => ChannelsInv
  BY ChannelsFirst
<1>2. ChannelsInv /\ [Next]_vars => ChannelsInv'
  BY ChannelsStep
<1>3. ChannelsInv => OneDescriptor /\ StandardKept
  BY OneEach
<1> QED BY <1>1, <1>2, <1>3, PTL DEF Spec

(* A descriptor that a design keeps names the same stream until that stream is
   closed: no open, no growth of the table and no close of another descriptor
   redirects it (vpi_mcd.cc). *)
THEOREM DescriptorsStable == SizesAssumption => (Spec => [][StableDescriptors]_vars)
<1> SUFFICES ASSUME SizesAssumption
             PROVE  Spec => [][StableDescriptors]_vars
  OBVIOUS
<1>1. Init => ChannelsInv
  BY ChannelsFirst
<1>2. ChannelsInv /\ [Next]_vars => ChannelsInv' /\ [StableDescriptors]_vars
  BY ChannelsStep
<1> QED BY <1>1, <1>2, PTL DEF Spec

(* A valid descriptor names a stream for each of its channels. *)
LEMMA StreamsOf ==
  ASSUME SizesAssumption, ChannelsInv, NEW d \in Descriptors, Valid(d), d # Mcd({})
  PROVE  Cardinality(Streams(d)) = Size(d) /\ Streams(d) # {} /\ Streams(d) \subseteq Nat
<1>1. /\ mcd_table \in [Channel -> Nat \cup {Closed}] /\ Closed \notin Nat
      /\ fd_table \in Seq(Nat \cup {Closed})
  BY DEF ChannelsInv, TablesOK, Typed, SizesAssumption
<1>2. CASE \E s \in SUBSET Channel : d = Mcd(s)
  <2>1. PICK s \in SUBSET Channel : d = Mcd(s)
    BY <1>2
  <2>2. IsMcd(d) /\ d.set = s /\ s # {}
    BY <2>1 DEF Mcd, IsMcd
  <2>3. \A i \in s : mcd_table[i] # Closed /\ mcd_table[i] \in Nat
    BY <1>1, <2>2 DEF Valid
  <2>4. PICK t : t = {mcd_table[i] : i \in s}
    OBVIOUS
  <2>5. Streams(d) = t /\ t # {} /\ t \subseteq Nat
    <3>1. Streams(d) = t \ {Closed}
      BY <2>2, <2>4 DEF Streams
    <3> QED BY <1>1, <2>2, <2>3, <2>4, <3>1
  <2>6. IsFiniteSet(s)
    <3>1. McdSize - 1 \in Int
      BY DEF SizesAssumption
    <3>2. IsFiniteSet(Channel)
      BY <3>1, FS_Interval DEF Channel
    <3> QED BY <3>2, FS_Subset
  <2>7. PICK f : f = [i \in s |-> mcd_table[i]]
    OBVIOUS
  <2>8. f \in Bijection(s, t)
    <3>1. f \in [s -> t] /\ \A i \in s : f[i] = mcd_table[i]
      BY <2>4, <2>7
    <3>2. \A i, j \in s : f[i] = f[j] => i = j
      BY <2>3, <3>1 DEF ChannelsInv, TablesOK, Owned
    <3>3. \A x \in t : \E i \in s : f[i] = x
      BY <2>4, <3>1
    <3> QED BY <3>1, <3>2, <3>3 DEF Bijection, Injection, IsInjective, Surjection
  <2>9. Cardinality(t) = Cardinality(s)
    BY <2>6, <2>8, FS_Bijection DEF ExistsBijection
  <2> QED BY <2>2, <2>5, <2>9 DEF Size
<1>3. CASE \E i \in 0 .. FdLimit : d = Fd(i)
  <2>1. ~IsMcd(d)
    BY <1>3 DEF Fd, IsMcd
  <2>2. PICK s : s = vpi_get_file(d.idx)
    OBVIOUS
  <2>3. s # Closed
    BY <2>1, <2>2 DEF Valid
  <2>4. s \in Nat
    <3>1. PICK i \in 0 .. FdLimit : d = Fd(i)
      BY <1>3
    <3>2. d.idx = i
      BY <3>1 DEF Fd
    <3>3. i \in 0 .. Len(fd_table) - 1 /\ s = fd_table[i + 1]
      BY <2>2, <2>3, <3>2 DEF vpi_get_file
    <3>4. i + 1 \in 1 .. Len(fd_table)
      BY <1>1, <3>3
    <3> QED BY <1>1, <2>3, <3>3, <3>4
  <2>5. Streams(d) = {s}
    BY <2>1, <2>2, <2>3 DEF Streams
  <2>6. Cardinality({s}) = 1
    BY FS_Singleton
  <2> QED BY <2>1, <2>4, <2>5, <2>6 DEF Size
<1> QED BY <1>2, <1>3 DEF Descriptors

(* The line that one of the tasks writes through a valid descriptor. *)
LEMMA LineWritten ==
  ASSUME SizesAssumption, ChannelsInv, NEW d \in Descriptors, Valid(d), d # Mcd({}),
         NEW w, Cardinality(w) = Size(d), last' = <<Line(d, w)>>
  PROVE  WholeLine'
<1>1. Cardinality(Streams(d)) = Size(d) /\ Streams(d) # {}
  BY StreamsOf
<1>2. PICK r : r = Line(d, w)
  OBVIOUS
<1>3. r.to = Streams(d) /\ r.for = w
  BY <1>2 DEF Line
<1>4. last' = <<r>>
  BY <1>2
<1>5. \A i \in DOMAIN last' : last'[i] = r
  BY <1>4
<1> QED BY <1>1, <1>3, <1>5 DEF WholeLine

LEMMA LinesStep ==
  ASSUME SizesAssumption, LinesInv, [Next]_vars
  PROVE  LinesInv'
<1>0. ChannelsInv' /\ ChannelsInv /\ strobes \in Seq(Request) /\ WholeLine
  BY ChannelsStep DEF LinesInv
<1>1. CASE UNCHANGED <<strobes, last>>
  BY <1>0, <1>1 DEF LinesInv, WholeLine
<1>2. CASE \E d \in Descriptors : sys_fdisplay(d)
  <2>1. PICK d \in Descriptors : sys_fdisplay(d)
    BY <1>2
  <2>2. /\ Valid(d) /\ d # Mcd({}) /\ last' = <<Line(d, Streams(d))>> /\ strobes' = strobes
    BY <2>1 DEF sys_fdisplay
  <2>3. Cardinality(Streams(d)) = Size(d)
    BY <1>0, <2>2, StreamsOf
  <2>4. WholeLine'
    BY <1>0, <2>2, <2>3, LineWritten
  <2> QED BY <1>0, <2>2, <2>4 DEF LinesInv
<1>3. CASE \E d \in Descriptors : sys_fstrobe(d)
  <2>1. PICK d \in Descriptors : sys_fstrobe(d)
    BY <1>3
  <2>2. PICK r : r = [d |-> d, for |-> Streams(d)]
    OBVIOUS
  <2>3. Valid(d) /\ d # Mcd({}) /\ strobes' = Append(strobes, r) /\ last' = last
    BY <2>1, <2>2 DEF sys_fstrobe
  <2>4. Cardinality(Streams(d)) = Size(d) /\ Streams(d) \subseteq Nat
    BY <1>0, <2>3, StreamsOf
  <2>5. r \in Request
    BY <2>2, <2>3, <2>4 DEF Request
  <2>6. strobes' \in Seq(Request)
    BY <1>0, <2>3, <2>5, AppendProperties
  <2>7. WholeLine'
    BY <1>0, <2>3 DEF WholeLine
  <2> QED BY <1>0, <2>6, <2>7 DEF LinesInv
<1>4. CASE strobe_cb
  <2>1. PICK s : s = Head(strobes)
    OBVIOUS
  <2>2. /\ strobes # <<>> /\ strobes' = Tail(strobes)
        /\ last' = IF Valid(s.d) THEN <<Line(s.d, s.for)>> ELSE last
    BY <1>4, <2>1 DEF strobe_cb
  <2>3. s \in Request /\ strobes' \in Seq(Request)
    BY <1>0, <2>1, <2>2, HeadTailProperties
  <2>4. s.d \in Descriptors /\ s.d # Mcd({}) /\ Cardinality(s.for) = Size(s.d)
    BY <2>3 DEF Request
  <2>5. CASE Valid(s.d)
    <3>1. last' = <<Line(s.d, s.for)>>
      BY <2>2, <2>5
    <3>2. WholeLine'
      BY <1>0, <2>4, <2>5, <3>1, LineWritten
    <3> QED BY <1>0, <2>3, <3>2 DEF LinesInv
  <2>6. CASE ~Valid(s.d)
    BY <1>0, <2>2, <2>3, <2>6 DEF LinesInv, WholeLine
  <2> QED BY <2>5, <2>6
<1>5. CASE \/ vpi_mcd_open \/ vpi_fopen \/ vpi_fopen_fails
           \/ (\E d \in Descriptors : sys_fclose(d))
           \/ EndOfActive \/ Tick \/ UNCHANGED vars
  <2>1. UNCHANGED <<strobes, last>>
    BY <1>5 DEF vpi_mcd_open, vpi_fopen, vpi_fopen_fails, sys_fclose, EndOfActive, Tick, vars
  <2> QED BY <1>1, <2>1
<1> QED BY <1>2, <1>3, <1>4, <1>5 DEF Next

(* A line reaches all the streams of its descriptor or is not written: as many
   as the descriptor named when the task was called, also when $fstrobe writes
   at the end of a step in which files were closed and opened (strobe_cb of
   sys_display.c). *)
THEOREM LinesWhole == SizesAssumption => (Spec => []WholeLine)
<1> SUFFICES ASSUME SizesAssumption
             PROVE  Spec => []WholeLine
  OBVIOUS
<1>1. Init => LinesInv
  <2> SUFFICES ASSUME Init PROVE LinesInv
    OBVIOUS
  <2>1. ChannelsInv
    BY ChannelsFirst
  <2>2. strobes = <<>> /\ last = <<>>
    BY DEF Init
  <2> QED BY <2>1, <2>2 DEF LinesInv, WholeLine
<1>2. LinesInv /\ [Next]_vars => LinesInv'
  BY LinesStep
<1>3. LinesInv => WholeLine
  BY DEF LinesInv
<1> QED BY <1>1, <1>2, <1>3, PTL DEF Spec

(* No entry of the table of files is taken away, and a stream that is opened
   has a number of its own. *)
LEMMA OnlyNewOpened ==
  ASSUME SizesAssumption, ChannelsInv, [Next]_vars
  PROVE  /\ \A k \in DOMAIN fd_table : k \in DOMAIN fd_table'
         /\ made' \in Nat /\ made <= made' /\ open' \cap (1 .. made) \subseteq open
<1>1. /\ fd_table \in Seq(Nat \cup {Closed}) /\ made \in Nat /\ open \subseteq 1 .. made
      /\ FdIncr \in Nat
  BY DEF ChannelsInv, TablesOK, Typed, SizesAssumption
<1>2. Grown \in Seq(Nat \cup {Closed}) /\ Len(Grown) = Len(fd_table) + FdIncr
  BY <1>1, LongerTable DEF Grown, Extends
<1>3. \A k \in DOMAIN fd_table : k \in DOMAIN Grown
  BY <1>1, <1>2
<1>4. CASE vpi_mcd_open \/ vpi_fopen
  <2>1. made' = made + 1 /\ open' = open \cup {made + 1}
    BY <1>4 DEF vpi_mcd_open, vpi_fopen
  <2>2. \A k \in DOMAIN fd_table : k \in DOMAIN fd_table'
    BY <1>1, <1>3, <1>4 DEF vpi_mcd_open, vpi_fopen
  <2> QED BY <1>1, <2>1, <2>2
<1>5. CASE vpi_fopen_fails
  BY <1>1, <1>3, <1>5 DEF vpi_fopen_fails
<1>6. CASE \E d \in Descriptors : sys_fclose(d)
  <2>1. PICK d \in Descriptors : sys_fclose(d)
    BY <1>6
  <2>2. made' = made /\ open' \subseteq open /\ DOMAIN fd_table' = DOMAIN fd_table
    BY <2>1 DEF sys_fclose
  <2> QED BY <1>1, <2>2
<1>7. CASE UNCHANGED tables
  BY <1>1, <1>7 DEF tables
<1>8. CASE \/ \E d \in Descriptors : sys_fdisplay(d) \/ sys_fstrobe(d)
           \/ strobe_cb \/ EndOfActive \/ Tick \/ UNCHANGED vars
  <2>1. UNCHANGED tables
    BY <1>8 DEF sys_fdisplay, sys_fstrobe, strobe_cb, EndOfActive, Tick, vars
  <2> QED BY <1>7, <2>1
<1> QED BY <1>4, <1>5, <1>6, <1>8 DEF Next

(* Streams that are meant stay so: what was open and still is, a descriptor
   names still. *)
LEMMA AimKept ==
  ASSUME SizesAssumption, ChannelsInv, [Next]_vars, NEW w
  PROVE  /\ \A d \in Descriptors : Aim(w, Streams(d)) => Aim(w, Streams(d))'
         /\ \A to : Aim(w, to) => w \subseteq 1 .. made' /\ w \cap open' \subseteq to
<1>1. /\ \A k \in DOMAIN fd_table : k \in DOMAIN fd_table'
      /\ made' \in Nat /\ made <= made' /\ open' \cap (1 .. made) \subseteq open
  BY OnlyNewOpened
<1>2. StableDescriptors /\ ChannelsInv'
  BY ChannelsStep
<1>3. /\ Closed \notin Nat /\ made \in Nat
      /\ fd_table \in Seq(Nat \cup {Closed}) /\ fd_table' \in Seq(Nat \cup {Closed})
  BY <1>2 DEF ChannelsInv, TablesOK, Typed, SizesAssumption
<1>4. ASSUME NEW to, Aim(w, to)
      PROVE  w \subseteq 1 .. made' /\ w \cap open' \subseteq to
  <2>1. \A x \in 1 .. made : x \in 1 .. made' /\ (x \in open' => x \in open)
    BY <1>1, <1>3
  <2>2. \A x \in w : x \in 1 .. made /\ (x \in open => x \in to)
    BY <1>4 DEF Aim
  <2> QED BY <2>1, <2>2
<1>5. ASSUME NEW d \in Descriptors, Aim(w, Streams(d)), NEW x \in w \cap open'
      PROVE  x \in Streams(d)'
  <2>1. x \in Streams(d) /\ x # Closed
    BY <1>3, <1>4, <1>5 DEF Aim
  <2>2. CASE \E s \in SUBSET Channel : d = Mcd(s)
    <3>1. IsMcd(d) /\ d.set \subseteq Channel
      BY <2>2 DEF Mcd, IsMcd
    <3>2. PICK i \in d.set : x = mcd_table[i]
      BY <2>1, <3>1 DEF Streams
    <3>3. mcd_table'[i] = x
      BY <1>2, <1>5, <3>1, <3>2 DEF StableDescriptors
    <3> QED BY <2>1, <3>1, <3>2, <3>3 DEF Streams
  <2>3. CASE \E i \in 0 .. FdLimit : d = Fd(i)
    <3>1. PICK i \in 0 .. FdLimit : d = Fd(i)
      BY <2>3
    <3>2. ~IsMcd(d) /\ d.idx = i
      BY <3>1 DEF Fd, IsMcd
    <3>3. i \in 0 .. Len(fd_table) - 1 /\ x = fd_table[i + 1]
      BY <2>1, <3>2 DEF Streams, vpi_get_file
    <3>4. i + 1 \in DOMAIN fd_table
      BY <1>3, <3>3
    <3>5. fd_table'[i + 1] = x /\ i + 1 \in DOMAIN fd_table'
      BY <1>1, <1>2, <1>5, <3>3, <3>4 DEF StableDescriptors
    <3>6. i \in 0 .. Len(fd_table') - 1
      BY <1>3, <3>1, <3>5
    <3>7. vpi_get_file(i)' = x
      BY <3>5, <3>6 DEF vpi_get_file
    <3> QED BY <2>1, <3>2, <3>7 DEF Streams
  <2> QED BY <2>2, <2>3 DEF Descriptors
<1>6. ASSUME NEW d \in Descriptors, Aim(w, Streams(d))
      PROVE  Aim(w, Streams(d))'
  <2>1. w \subseteq 1 .. made'
    BY <1>4, <1>6
  <2>2. w \cap open' \subseteq Streams(d)'
    BY <1>5, <1>6
  <2> QED BY <2>1, <2>2 DEF Aim
<1> QED BY <1>4, <1>6

(* The line that a task writes through a descriptor reaches what it is for. *)
LEMMA LineAimed ==
  ASSUME NEW d, NEW w, Aim(w, Streams(d)), UNCHANGED tables, last' = <<Line(d, w)>>
  PROVE  \A i \in DOMAIN last' : Aim(last[i].for, last[i].to)'
<1>1. PICK r : r = Line(d, w)
  OBVIOUS
<1>2. r.to = Streams(d) /\ r.for = w
  BY <1>1 DEF Line
<1>3. last' = <<r>> /\ \A i \in DOMAIN last' : last'[i] = r
  BY <1>1
<1> QED BY <1>2, <1>3 DEF Aim, tables

(* The streams of a descriptor are among those made. *)
LEMMA StreamsMade ==
  ASSUME ChannelsInv, NEW d \in Descriptors
  PROVE  Aim(Streams(d), Streams(d))
<1>1. /\ open \subseteq 1 .. made /\ fd_table \in Seq(Nat \cup {Closed})
      /\ \A i \in Channel : mcd_table[i] # Closed => mcd_table[i] \in open
      /\ \A k \in DOMAIN fd_table : fd_table[k] # Closed => fd_table[k] \in open
  BY DEF ChannelsInv, TablesOK, Typed, Owned
<1>2. ASSUME NEW x \in Streams(d)
      PROVE  x \in 1 .. made
  <2>1. CASE \E s \in SUBSET Channel : d = Mcd(s)
    <3>1. IsMcd(d) /\ d.set \subseteq Channel
      BY <2>1 DEF Mcd, IsMcd
    <3>2. x # Closed /\ \E i \in d.set : x = mcd_table[i]
      BY <1>2, <3>1 DEF Streams
    <3> QED BY <1>1, <3>1, <3>2
  <2>2. CASE \E i \in 0 .. FdLimit : d = Fd(i)
    <3>1. PICK i \in 0 .. FdLimit : d = Fd(i)
      BY <2>2
    <3>2. ~IsMcd(d) /\ d.idx = i
      BY <3>1 DEF Fd, IsMcd
    <3>3. x # Closed /\ i \in 0 .. Len(fd_table) - 1 /\ x = fd_table[i + 1]
      BY <1>2, <3>2 DEF Streams, vpi_get_file
    <3>4. i + 1 \in DOMAIN fd_table
      BY <1>1, <3>3
    <3> QED BY <1>1, <3>3, <3>4
  <2> QED BY <2>1, <2>2 DEF Descriptors
<1> QED BY <1>2 DEF Aim

LEMMA AimStep ==
  ASSUME SizesAssumption, AimInv, [Next]_vars
  PROVE  AimInv'
<1>0. /\ ChannelsInv /\ strobes \in Seq(Request) /\ Aimed /\ LinesInv'
      /\ \A i \in DOMAIN strobes : strobes[i].d \in Descriptors
  <2>1. ChannelsInv /\ strobes \in Seq(Request) /\ Aimed /\ LinesInv'
    BY LinesStep DEF AimInv, LinesInv
  <2>2. \A i \in DOMAIN strobes : strobes[i] \in Request
    BY <2>1
  <2> QED BY <2>1, <2>2 DEF Request
<1>1. ASSUME UNCHANGED strobes
      PROVE  \A i \in DOMAIN strobes' : Aim(strobes[i].for, Streams(strobes[i].d))'
  <2> SUFFICES ASSUME NEW i \in DOMAIN strobes
               PROVE  Aim(strobes[i].for, Streams(strobes[i].d))'
    BY <1>1
  <2>1. PICK w, d : w = strobes[i].for /\ d = strobes[i].d
    OBVIOUS
  <2>2. d \in Descriptors /\ Aim(w, Streams(d))
    BY <1>0, <2>1 DEF Aimed
  <2>3. w \subseteq 1 .. made' /\ w \cap open' \subseteq Streams(d)'
    BY <1>0, <2>2, AimKept DEF Aim
  <2>4. w = strobes'[i].for /\ d = strobes'[i].d
    BY <1>1, <2>1
  <2> QED BY <2>3, <2>4 DEF Aim, Streams, vpi_get_file
<1>2. ASSUME UNCHANGED last
      PROVE  \A i \in DOMAIN last' : Aim(last[i].for, last[i].to)'
  <2> SUFFICES ASSUME NEW i \in DOMAIN last
               PROVE  Aim(last[i].for, last[i].to)'
    BY <1>2
  <2>1. PICK w, to : w = last[i].for /\ to = last[i].to
    OBVIOUS
  <2>2. Aim(w, to)
    BY <1>0, <2>1 DEF Aimed
  <2>3. w \subseteq 1 .. made' /\ w \cap open' \subseteq to
    BY <1>0, <2>2, AimKept
  <2>4. w = last'[i].for /\ to = last'[i].to
    BY <1>2, <2>1
  <2> QED BY <2>3, <2>4 DEF Aim
<1>3. CASE \E d \in Descriptors : sys_fdisplay(d)
  <2>1. PICK d \in Descriptors : sys_fdisplay(d)
    BY <1>3
  <2>2. PICK w : w = Streams(d)
    OBVIOUS
  <2>3. UNCHANGED tables /\ strobes' = strobes /\ last' = <<Line(d, w)>>
    BY <2>1, <2>2 DEF sys_fdisplay
  <2>4. Aim(w, Streams(d))
    BY <1>0, <2>2, StreamsMade
  <2>5. \A i \in DOMAIN last' : Aim(last[i].for, last[i].to)'
    BY <2>3, <2>4, LineAimed
  <2> QED BY <1>0, <1>1, <2>3, <2>5 DEF AimInv, Aimed
<1>4. CASE \E d \in Descriptors : sys_fstrobe(d)
  <2>1. PICK d \in Descriptors : sys_fstrobe(d)
    BY <1>4
  <2>2. PICK r : r = [d |-> d, for |-> Streams(d)]
    OBVIOUS
  <2>3. UNCHANGED tables /\ strobes' = Append(strobes, r) /\ last' = last
    BY <2>1, <2>2 DEF sys_fstrobe
  <2>4. /\ DOMAIN strobes' = 1 .. Len(strobes) + 1 /\ DOMAIN strobes = 1 .. Len(strobes)
        /\ Len(strobes) \in Nat /\ strobes'[Len(strobes) + 1] = r
        /\ \A i \in 1 .. Len(strobes) : strobes'[i] = strobes[i]
    BY <1>0, <2>3
  <2>5. ASSUME NEW i \in DOMAIN strobes'
        PROVE  Aim(strobes'[i].for, Streams(strobes'[i].d))
    <3>1. CASE i = Len(strobes) + 1
      <4>1. strobes'[i].for = Streams(d) /\ strobes'[i].d = d
        BY <2>2, <2>4, <3>1
      <4>2. Aim(Streams(d), Streams(d))
        BY <1>0, StreamsMade
      <4> QED BY <4>1, <4>2
    <3>2. CASE i # Len(strobes) + 1
      <4>1. i \in DOMAIN strobes /\ strobes'[i] = strobes[i]
        BY <2>4, <3>2
      <4> QED BY <1>0, <4>1 DEF Aimed
    <3> QED BY <3>1, <3>2
  <2>6. \A i \in DOMAIN strobes' : Aim(strobes[i].for, Streams(strobes[i].d))'
    BY <2>3, <2>5 DEF Aim, Streams, vpi_get_file, tables
  <2> QED BY <1>0, <1>2, <2>3, <2>6 DEF AimInv, Aimed
<1>5. CASE strobe_cb
  <2>1. /\ strobes # <<>> /\ strobes' = Tail(strobes) /\ UNCHANGED tables
        /\ last' = IF Valid(Head(strobes).d)
                   THEN <<Line(Head(strobes).d, Head(strobes).for)>> ELSE last
    BY <1>5 DEF strobe_cb
  <2>2. /\ Len(strobes) \in Nat /\ DOMAIN strobes = 1 .. Len(strobes)
        /\ 1 \in DOMAIN strobes /\ Head(strobes) = strobes[1]
        /\ DOMAIN strobes' = 1 .. Len(strobes) - 1
        /\ \A i \in 1 .. Len(strobes) - 1 : strobes'[i] = strobes[i + 1]
    BY <1>0, <2>1
  <2>3. ASSUME NEW i \in DOMAIN strobes'
        PROVE  Aim(strobes'[i].for, Streams(strobes'[i].d))
    <3>1. i + 1 \in DOMAIN strobes /\ strobes'[i] = strobes[i + 1]
      BY <2>2
    <3> QED BY <1>0, <3>1 DEF Aimed
  <2>4. \A i \in DOMAIN strobes' : Aim(strobes[i].for, Streams(strobes[i].d))'
    BY <2>1, <2>3 DEF Aim, Streams, vpi_get_file, tables
  <2>5. CASE Valid(Head(strobes).d)
    <3>1. PICK d, w : d = Head(strobes).d /\ w = Head(strobes).for
      OBVIOUS
    <3>2. Aim(w, Streams(d))
      BY <1>0, <2>2, <3>1 DEF Aimed
    <3>3. last' = <<Line(d, w)>>
      BY <2>1, <2>5, <3>1
    <3>4. \A i \in DOMAIN last' : Aim(last[i].for, last[i].to)'
      BY <2>1, <3>2, <3>3, LineAimed
    <3> QED BY <1>0, <2>4, <3>4 DEF AimInv, Aimed
  <2>6. CASE ~Valid(Head(strobes).d)
    BY <1>0, <1>2, <2>1, <2>4, <2>6 DEF AimInv, Aimed
  <2> QED BY <2>5, <2>6
<1>6. CASE \/ vpi_mcd_open \/ vpi_fopen \/ vpi_fopen_fails
           \/ (\E d \in Descriptors : sys_fclose(d))
           \/ EndOfActive \/ Tick \/ UNCHANGED vars
  <2>1. UNCHANGED strobes /\ UNCHANGED last
    BY <1>6 DEF vpi_mcd_open, vpi_fopen, vpi_fopen_fails, sys_fclose, EndOfActive, Tick, vars
  <2> QED BY <1>0, <1>1, <1>2, <2>1 DEF AimInv, Aimed
<1> QED BY <1>3, <1>4, <1>5, <1>6 DEF Next

(* A line reaches every stream it was meant for that is still open, whatever
   was closed and opened between $fstrobe and the end of its step (strobe_cb of
   sys_display.c): a slot that was closed and opened again redirects only the
   part of the line whose stream is gone. *)
THEOREM LinesReachOpen == SizesAssumption => (Spec => []ReachesOpen)
<1> SUFFICES ASSUME SizesAssumption
             PROVE  Spec => []ReachesOpen
  OBVIOUS
<1>1. Init => AimInv
  <2> SUFFICES ASSUME Init PROVE AimInv
    OBVIOUS
  <2>1. ChannelsInv
    BY ChannelsFirst
  <2>2. strobes = <<>> /\ last = <<>>
    BY DEF Init
  <2> QED BY <2>1, <2>2 DEF AimInv, Aimed, LinesInv, WholeLine
<1>2. AimInv /\ [Next]_vars => AimInv'
  BY AimStep
<1>3. AimInv => ReachesOpen
  BY DEF AimInv, Aimed, Aim, ReachesOpen
<1> QED BY <1>1, <1>2, <1>3, PTL DEF Spec

============================================================================
