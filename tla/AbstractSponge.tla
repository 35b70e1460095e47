--------------------------- MODULE AbstractSponge ---------------------------
(***************************************************************************)
(* What the incremental functions of src/rand/fips202.c promise: sponges   *)
(* that do not share anything, each of which keeps the bytes it cannot     *)
(* absorb yet in a buffer of its own, pads them when the message ends, and *)
(* hands out the bytes of a permuted state one after the other.            *)
(***************************************************************************)
EXTENDS SpongeState

CONSTANTS Contexts, Algorithms

VARIABLES
  mode,     \* "off", "absorbing" or "squeezing"
  alg,      \* one of the functions of FIPS 202
  st,       \* the state, without the bytes of buf
  buf,      \* absorbed bytes that do not fill a block
  left,     \* bytes of st not yet handed out
  msg, out  \* all bytes absorbed, and all bytes handed out
vars == <<mode, alg, st, buf, left, msg, out>>

Rate(c) == alg[c].rate

Padding(f, n) ==
  [i \in 1 .. n |-> (IF i = 1 THEN f.domain ELSE {}) ++ (IF i = n THEN {7} ELSE {})]

Init ==
  /\ mode = [c \in Contexts |-> "off"]
  /\ alg \in [Contexts -> Algorithms]
  /\ st = [c \in Contexts |-> ZeroState]
  /\ buf = [c \in Contexts |-> <<>>] /\ left = [c \in Contexts |-> 0]
  /\ msg = [c \in Contexts |-> <<>>] /\ out = [c \in Contexts |-> <<>>]

Start(c) ==
  /\ mode[c] = "off"
  /\ mode' = [mode EXCEPT ![c] = "absorbing"]
  /\ \E f \in Algorithms : alg' = [alg EXCEPT ![c] = f]
  /\ st' = [st EXCEPT ![c] = ZeroState]
  /\ buf' = [buf EXCEPT ![c] = <<>>] /\ left' = [left EXCEPT ![c] = 0]
  /\ msg' = [msg EXCEPT ![c] = <<>>] /\ out' = [out EXCEPT ![c] = <<>>]

\* The bytes that a step adds to msg or out.
Added(old, new) == SubSeq(new, Len(old) + 1, Len(new))

\* Bytes that do not fill the block, and bytes that do.
Take(c) ==
  LET bytes == Added(msg[c], msg'[c])
  IN /\ mode[c] = "absorbing"
     /\ Len(buf[c]) + Len(bytes) < Rate(c)
     /\ msg' = [msg EXCEPT ![c] = @ \o bytes]
     /\ buf' = [buf EXCEPT ![c] = @ \o bytes]
     /\ UNCHANGED <<mode, alg, st, left, out>>

Fill(c) ==
  LET bytes == Added(msg[c], msg'[c])
  IN /\ mode[c] = "absorbing"
     /\ Len(buf[c]) + Len(bytes) = Rate(c)
     /\ msg' = [msg EXCEPT ![c] = @ \o bytes]
     /\ st' = [st EXCEPT ![c] = Permute(XorBytes(@, 0, buf[c] \o bytes))]
     /\ buf' = [buf EXCEPT ![c] = <<>>]
     /\ UNCHANGED <<mode, alg, left, out>>

\* The state with the last, padded block.
Padded(c) == XorBytes(st[c], 0, buf[c] \o Padding(alg[c], Rate(c) - Len(buf[c])))

Finish(c) ==
  /\ mode[c] = "absorbing"
  /\ mode' = [mode EXCEPT ![c] = "squeezing"]
  /\ st' = [st EXCEPT ![c] = Padded(c)]
  /\ buf' = [buf EXCEPT ![c] = <<>>]
  /\ UNCHANGED <<alg, left, msg, out>>

Give(c) ==
  LET n == Len(out'[c]) - Len(out[c])
  IN /\ mode[c] = "squeezing"
     /\ n <= left[c]
     /\ out' = [out EXCEPT ![c] = @ \o BytesAt(st[c], Rate(c) - left[c], n)]
     /\ left' = [left EXCEPT ![c] = @ - n]
     /\ UNCHANGED <<mode, alg, st, buf, msg>>

GiveFromNext(c) ==
  LET n == Len(out'[c]) - Len(out[c])
  IN /\ mode[c] = "squeezing"
     /\ left[c] = 0 /\ n \in 1 .. Rate(c)
     /\ st' = [st EXCEPT ![c] = Permute(@)]
     /\ out' = [out EXCEPT ![c] = @ \o BytesAt(Permute(st[c]), 0, n)]
     /\ left' = [left EXCEPT ![c] = Rate(c) - n]
     /\ UNCHANGED <<mode, alg, buf, msg>>

\* A context that is given up.
Off(c) ==
  /\ mode' = [mode EXCEPT ![c] = "off"]
  /\ st' = [st EXCEPT ![c] = ZeroState]
  /\ buf' = [buf EXCEPT ![c] = <<>>] /\ left' = [left EXCEPT ![c] = 0]

Digest(c) ==
  /\ mode[c] = "absorbing"
  /\ out' = [out EXCEPT ![c] = BytesAt(Permute(Padded(c)), 0, alg[c].digest)]
  /\ Off(c)
  /\ UNCHANGED <<alg, msg>>

Stop(c) ==
  /\ mode[c] # "off"
  /\ Off(c)
  /\ UNCHANGED <<alg, msg, out>>

Copy(dest, src) ==
  /\ mode[dest] = "off" /\ mode[src] # "off"
  /\ mode' = [mode EXCEPT ![dest] = mode[src]]
  /\ alg' = [alg EXCEPT ![dest] = alg[src]]
  /\ st' = [st EXCEPT ![dest] = st[src]]
  /\ buf' = [buf EXCEPT ![dest] = buf[src]] /\ left' = [left EXCEPT ![dest] = left[src]]
  /\ msg' = [msg EXCEPT ![dest] = msg[src]] /\ out' = [out EXCEPT ![dest] = out[src]]

Next ==
  \/ \E c \in Contexts : \/ Start(c) \/ Take(c) \/ Fill(c) \/ Finish(c)
                         \/ Give(c) \/ GiveFromNext(c) \/ Digest(c) \/ Stop(c)
  \/ \E dest, src \in Contexts : Copy(dest, src)

Spec == Init /\ [][Next]_vars
============================================================================
