---------------------------- MODULE KernelsProofs ---------------------------
(***************************************************************************)
(* Proofs about Kernels, for any number of windows, kernels and requests,  *)
(* whatever children do.  A queue changes in two ways: a request is        *)
(* appended, or some requests leave at its front, which is Suffix.         *)
(***************************************************************************)
EXTENDS Kernels, TLAPS

-----------------------------------------------------------------------------
(* What Append and Tail do to a sequence, and what its range is.            *)
LEMMA AppendFacts ==
  ASSUME NEW S, NEW s \in Seq(S), NEW e \in S
  PROVE  /\ Append(s, e) \in Seq(S)
         /\ Append(s, e) # <<>>
         /\ Len(Append(s, e)) = Len(s) + 1
         /\ \A i \in 1 .. Len(s) : Append(s, e)[i] = s[i]
         /\ Append(s, e)[Len(s) + 1] = e
         /\ s # <<>> => Head(Append(s, e)) = Head(s)
         /\ s = <<>> => Append(s, e) = <<e>>
PROOF
  <1>1. Append(s, e) \in Seq(S) /\ Len(Append(s, e)) = Len(s) + 1 /\ Len(s) \in Nat
    OBVIOUS
  <1>2. \A i \in 1 .. Len(s) : Append(s, e)[i] = s[i]
    OBVIOUS
  <1>3. Append(s, e)[Len(s) + 1] = e
    OBVIOUS
  <1>4. Append(s, e) # <<>>
    BY <1>1
  <1>5. s # <<>> => Head(Append(s, e)) = Head(s)
    BY <1>1, <1>2
  <1>6. s = <<>> => Append(s, e) = <<e>>
    OBVIOUS
  <1> QED BY <1>1, <1>2, <1>3, <1>4, <1>5, <1>6

(* What Tail leaves.                                                        *)
LEMMA TailFacts ==
  ASSUME NEW S, NEW s \in Seq(S), s # <<>>
  PROVE  /\ Head(s) \in S
         /\ Head(s) = s[1]
         /\ Tail(s) \in Seq(S)
         /\ Len(s) \in Nat /\ Len(s) >= 1
         /\ Len(Tail(s)) = Len(s) - 1
         /\ \A i \in 1 .. Len(Tail(s)) : Tail(s)[i] = s[i + 1]
         /\ Len(s) > 1 <=> Tail(s) # <<>>
  OBVIOUS

(* The range of a sequence, by its indices.                                 *)
LEMMA RangeFacts ==
  ASSUME NEW S, NEW s \in Seq(S)
  PROVE  \A e : e \in Range(s) <=> \E i \in 1 .. Len(s) : s[i] = e
  BY DEF Range

(* An element is in the range.                                              *)
LEMMA InRange ==
  ASSUME NEW S, NEW s \in Seq(S), NEW i \in 1 .. Len(s)
  PROVE  s[i] \in Range(s)
  BY DEF Range

(* A sequence of one element.                                               *)
LEMMA SingleFacts ==
  ASSUME NEW S, NEW e \in S
  PROVE  <<e>> # <<>> /\ Head(<<e>>) = e /\ Tail(<<e>>) = <<>> /\ <<e>> \in Seq(S)
  OBVIOUS
-----------------------------------------------------------------------------
(* Requests leave at the front of a queue, none or some or all of them, and *)
(* have an outcome; nothing else changes.                                   *)
LEMMA Suffix ==
  ASSUME TypeOK, Queued,
         NEW k \in Kernels, NEW r \in Kernel, NEW n \in Nat,
         kern' = [kern EXCEPT ![k] = r],
         Len(kern[k].queue) = Len(r.queue) + n,
         \A i \in 1 .. Len(r.queue) : r.queue[i] = kern[k].queue[i + n],
         \A q \in Requests : IF \E i \in 1 .. n : kern[k].queue[i] = q
                             THEN req'[q] \in Outcomes ELSE req'[q] = req[q]
  PROVE  Queued'
PROOF
  <1> DEFINE old == kern[k].queue
             new == r.queue
  <1>1. old \in Seq(Requests) /\ new \in Seq(Requests)
    BY DEF TypeOK, Kernel
  <1>2. /\ kern'[k].queue = new
        /\ \A l \in Kernels : l # k => kern'[l].queue = kern[l].queue
    BY DEF TypeOK
  <1>3. /\ Len(old) \in Nat /\ Len(new) \in Nat /\ Len(old) = Len(new) + n
        /\ \A i \in 1 .. Len(new) : i + n \in 1 .. Len(old) /\ new[i] = old[i + n] /\ i + n > n
    BY <1>1
  <1>4. \A l \in Kernels : kern[l].queue \in Seq(Requests)
    BY DEF TypeOK, Kernel
  <1>5. \A l \in Kernels : \A j \in 1 .. Len(kern'[l].queue) :
          \E i \in 1 .. Len(kern[l].queue) :
            /\ kern'[l].queue[j] = kern[l].queue[i]
            /\ i = IF l = k THEN j + n ELSE j
    BY <1>2, <1>3
  <1>6. \A l \in Kernels : \A i \in 1 .. Len(kern[l].queue) :
          /\ req[kern[l].queue[i]] = "waiting"
          /\ kern[l].queue[i] \in Requests
          /\ \A m \in Kernels : \A j \in 1 .. Len(kern[m].queue) :
               kern[l].queue[i] = kern[m].queue[j] => l = m /\ i = j
    BY <1>4 DEF Queued
  <1>7. \A l \in Kernels : \A j \in 1 .. Len(kern'[l].queue) :
          \A i \in 1 .. n : old[i] # kern'[l].queue[j]
    <2> SUFFICES ASSUME NEW l \in Kernels, NEW j \in 1 .. Len(kern'[l].queue), NEW i \in 1 .. n,
                        old[i] = kern'[l].queue[j]
                 PROVE  FALSE
      OBVIOUS
    <2>1. PICK h \in 1 .. Len(kern[l].queue) :
            /\ kern'[l].queue[j] = kern[l].queue[h]
            /\ h = IF l = k THEN j + n ELSE j
      BY <1>5
    <2>2. i \in 1 .. Len(old)
      BY <1>3
    <2>3. l = k /\ h = i
      BY <1>6, <2>1, <2>2
    <2>4. j \in Nat /\ j >= 1
      <3>1. Len(kern'[l].queue) \in Nat
        BY <1>3, <1>2, <2>3
      <3> QED BY <3>1
    <2> QED BY <2>1, <2>3, <2>4
  <1>8. ASSUME NEW l \in Kernels, NEW j \in 1 .. Len(kern'[l].queue)
        PROVE  /\ req'[kern'[l].queue[j]] = "waiting"
               /\ \A m \in Kernels : \A h \in 1 .. Len(kern'[m].queue) :
                    kern'[l].queue[j] = kern'[m].queue[h] => l = m /\ j = h
    <2>1. PICK i \in 1 .. Len(kern[l].queue) :
            kern'[l].queue[j] = kern[l].queue[i] /\ i = (IF l = k THEN j + n ELSE j)
      BY <1>5
    <2>2. req'[kern'[l].queue[j]] = "waiting"
      <3> DEFINE q == kern'[l].queue[j]
      <3>1. q \in Requests /\ req[q] = "waiting"
        BY <1>6, <2>1
      <3>2. ~ \E h \in 1 .. n : kern[k].queue[h] = q
        BY <1>7
      <3> HIDE DEF q
      <3>3. req'[q] = req[q]
        BY <3>1, <3>2
      <3> QED BY <3>1, <3>3 DEF q
    <2>3. ASSUME NEW m \in Kernels, NEW h \in 1 .. Len(kern'[m].queue),
                 kern'[l].queue[j] = kern'[m].queue[h]
          PROVE  l = m /\ j = h
      <3>1. PICK i2 \in 1 .. Len(kern[m].queue) :
              kern'[m].queue[h] = kern[m].queue[i2] /\ i2 = (IF m = k THEN h + n ELSE h)
        BY <1>5
      <3>2. l = m /\ i = i2
        BY <1>6, <2>1, <2>3, <3>1
      <3> QED BY <2>1, <3>1, <3>2
    <2> QED BY <2>2, <2>3
  <1>9. ASSUME NEW q \in Requests, req'[q] = "waiting"
        PROVE  \E l \in Kernels : q \in Range(kern'[l].queue)
    <2>1. (\A i \in 1 .. n : old[i] # q) /\ req[q] = "waiting"
      BY <1>9 DEF Outcomes
    <2>2. PICK l \in Kernels : q \in Range(kern[l].queue)
      BY <2>1 DEF Queued
    <2>3. PICK i \in 1 .. Len(kern[l].queue) : kern[l].queue[i] = q
      BY ONLY <2>2, <1>4, RangeFacts
    <2>4. CASE l # k
      BY <2>2, <2>4, <1>2
    <2>5. CASE l = k
      <3>1. i > n /\ i - n \in 1 .. Len(new)
        BY <2>1, <2>3, <2>5, <1>3
      <3>2. new[i - n] = q
        <4>1. (i - n) + n = i
          BY <1>3, <2>5
        <4>2. new[i - n] = old[(i - n) + n]
          BY <3>1, <1>3
        <4> QED BY <4>1, <4>2, <2>3, <2>5
      <3>3. new[i - n] \in Range(new)
        BY <3>1, <1>1, InRange
      <3> QED BY <3>2, <3>3, <1>2, <2>5
    <2> QED BY <2>4, <2>5
  <1> QED BY <1>8, <1>9 DEF Queued

(* A new request is appended to a queue.                                    *)
LEMMA Push ==
  ASSUME TypeOK, Queued,
         NEW k \in Kernels, NEW r \in Kernel, NEW q \in Requests,
         req[q] = "new",
         kern' = [kern EXCEPT ![k] = r],
         r.queue = Append(kern[k].queue, q),
         req' = [req EXCEPT ![q] = "waiting"]
  PROVE  Queued'
PROOF
  <1> DEFINE old == kern[k].queue
  <1>1. \A l \in Kernels : kern[l].queue \in Seq(Requests)
    BY DEF TypeOK, Kernel
  <1>2. /\ kern'[k].queue = Append(old, q)
        /\ \A l \in Kernels : l # k => kern'[l].queue = kern[l].queue
    BY DEF TypeOK
  <1>3. /\ Append(old, q) \in Seq(Requests)
        /\ Len(old) \in Nat
        /\ Len(Append(old, q)) = Len(old) + 1
        /\ \A i \in 1 .. Len(old) : Append(old, q)[i] = old[i]
        /\ Append(old, q)[Len(old) + 1] = q
    BY <1>1, AppendFacts
  <1>4. /\ req'[q] = "waiting"
        /\ \A p \in Requests : p # q => req'[p] = req[p]
    BY DEF TypeOK
  <1>5. \A l \in Kernels : \A i \in 1 .. Len(kern[l].queue) :
          /\ req[kern[l].queue[i]] = "waiting"
          /\ kern[l].queue[i] \in Requests
          /\ kern[l].queue[i] # q
          /\ \A m \in Kernels : \A j \in 1 .. Len(kern[m].queue) :
               kern[l].queue[i] = kern[m].queue[j] => l = m /\ i = j
    BY <1>1 DEF Queued
  <1>6. \A l \in Kernels : \A j \in 1 .. Len(kern'[l].queue) :
          \/ l = k /\ j = Len(old) + 1 /\ kern'[l].queue[j] = q
          \/ j \in 1 .. Len(kern[l].queue) /\ kern'[l].queue[j] = kern[l].queue[j]
    BY <1>2, <1>3
  <1>7. ASSUME NEW l \in Kernels, NEW j \in 1 .. Len(kern'[l].queue)
        PROVE  /\ req'[kern'[l].queue[j]] = "waiting"
               /\ \A m \in Kernels : \A h \in 1 .. Len(kern'[m].queue) :
                    kern'[l].queue[j] = kern'[m].queue[h] => l = m /\ j = h
    <2>1. req'[kern'[l].queue[j]] = "waiting"
      BY <1>4, <1>5, <1>6
    <2>2. ASSUME NEW m \in Kernels, NEW h \in 1 .. Len(kern'[m].queue),
                 kern'[l].queue[j] = kern'[m].queue[h]
          PROVE  l = m /\ j = h
      BY <2>2, <1>5, <1>6
    <2> QED BY <2>1, <2>2
  <1>8. ASSUME NEW p \in Requests, req'[p] = "waiting"
        PROVE  \E l \in Kernels : p \in Range(kern'[l].queue)
    <2>1. CASE p = q
      <3>1. Len(old) + 1 \in 1 .. Len(Append(old, q))
        BY <1>3
      <3>2. Append(old, q)[Len(old) + 1] \in Range(Append(old, q))
        BY <3>1, <1>3, InRange
      <3>3. q \in Range(kern'[k].queue)
        BY <3>2, <1>2, <1>3
      <3> QED BY <2>1, <3>3
    <2>2. CASE p # q
      <3>1. PICK l \in Kernels : p \in Range(kern[l].queue)
        BY <1>4, <1>8, <2>2 DEF Queued
      <3>2. PICK i \in 1 .. Len(kern[l].queue) : kern[l].queue[i] = p
        BY ONLY <3>1, <1>1, RangeFacts
      <3>3. CASE l # k
        BY <3>1, <3>3, <1>2
      <3>4. CASE l = k
        <4>1. i \in 1 .. Len(Append(old, q)) /\ Append(old, q)[i] = p
          BY <3>2, <3>4, <1>3
        <4>2. Append(old, q)[i] \in Range(Append(old, q))
          BY <4>1, <1>3, InRange
        <4>3. p \in Range(kern'[k].queue)
          BY <4>1, <4>2, <1>2
        <4> QED BY <4>3
      <3> QED BY <3>3, <3>4
    <2> QED BY <2>1, <2>2
  <1> QED BY <1>7, <1>8 DEF Queued
-----------------------------------------------------------------------------
(* What the invariant says of one kernel.                                   *)
Sane(r) ==
  /\ Exchange(r)
  /\ r.proc = "running" => r.err
  /\ r.proc = "none" => ~Held(r)
  /\ ~Held(r) => r.queue = <<>>
  /\ r.proc = "running" /\ r.queue # <<>> => r.op # "none"

(* The invariant, kernel by kernel.                                         *)
LEMMA SaneInv ==
  KInv <=> /\ TypeOK /\ Queued /\ OwnAnswer /\ Awaited
           /\ \A k \in Kernels : Sane(kern[k])
  BY DEF KInv, Sane, NotStuck

(* What it says of a kernel.                                                *)
LEMMA KernelFacts ==
  ASSUME KInv, NEW k \in Kernels
  PROVE  TypeOK /\ kern[k] \in Kernel /\ Sane(kern[k])
  BY SaneInv DEF TypeOK

(* The variables besides kern, req and reply keep their types.              *)
OtherTypes ==
  /\ win \in [Windows -> {"open", "closed"}]
  /\ known \in [Kernels -> Windows \cup {Nobody}]
  /\ closing \in Windows \cup {Nobody}
  /\ reaping \in Kernels \cup {Nobody}

(* A step of a kernel during which the I/O thread does not start or end     *)
(* waiting.                                                                 *)
LEMMA AwaitedKept ==
  ASSUME KInv, NEW k \in Kernels, NEW r \in Kernel,
         kern' = [kern EXCEPT ![k] = r], r.cin = kern[k].cin,
         kern[k].proc = "exited" => r.proc = "exited",
         UNCHANGED <<closing, reaping>>
  PROVE  Awaited'
PROOF
  <1>1. TypeOK /\ Awaited
    BY SaneInv
  <1>2. \A l \in Kernels : kern'[l] = IF l = k THEN r ELSE kern[l]
    BY <1>1 DEF TypeOK
  <1> QED BY <1>1, <1>2 DEF Awaited, Free

(* A step that changes one kernel and not its queue keeps the invariant     *)
(* when the kernel remains sane.                                            *)
LEMMA SameQueue ==
  ASSUME KInv, NEW k \in Kernels, NEW r \in Kernel,
         kern' = [kern EXCEPT ![k] = r], r.queue = kern[k].queue, Sane(r),
         UNCHANGED <<req, reply>>, OtherTypes', Awaited'
  PROVE  KInv'
PROOF
  <1>1. TypeOK /\ Queued /\ OwnAnswer /\ \A l \in Kernels : Sane(kern[l])
    BY SaneInv
  <1>2. TypeOK'
    BY <1>1 DEF TypeOK, OtherTypes
  <1>3. Queued'
    <2>1. r.queue \in Seq(Requests)
      BY DEF Kernel
    <2>2. Len(r.queue) \in Nat
      BY <2>1
    <2>3. \A q \in Requests : IF \E i \in 1 .. 0 : kern[k].queue[i] = q
                               THEN req'[q] \in Outcomes ELSE req'[q] = req[q]
      OBVIOUS
    <2>4. /\ Len(kern[k].queue) = Len(r.queue) + 0
          /\ \A i \in 1 .. Len(r.queue) : r.queue[i] = kern[k].queue[i + 0]
      BY <2>1, <2>2
    <2> QED BY <1>1, <2>3, <2>4, Suffix
  <1>4. \A l \in Kernels : Sane(kern'[l])
    BY <1>1 DEF TypeOK
  <1>5. OwnAnswer'
    BY <1>1 DEF OwnAnswer
  <1> QED BY <1>2, <1>3, <1>4, <1>5 DEF KInv, Sane, NotStuck

(* A step that changes no kernel and no request keeps the invariant.        *)
LEMMA Quiet ==
  ASSUME KInv, UNCHANGED <<kern, req, reply>>, OtherTypes', Awaited'
  PROVE  KInv'
PROOF
  <1>1. TypeOK'
    BY DEF KInv, TypeOK, OtherTypes
  <1>2. Queued' /\ OwnAnswer' /\ NotStuck'
    BY DEF KInv, Queued, OwnAnswer, NotStuck
  <1> QED BY <1>1, <1>2 DEF KInv

(* A handler's last action, Leave: the first n requests have left the queue *)
(* with an outcome, and all of them if the object is destroyed.             *)
LEMMA LeaveKeeps ==
  ASSUME KInv, NEW k \in Kernels, NEW r \in Kernel, NEW n \in Nat, NEW f,
         f \in [Requests -> {"new", "waiting"} \cup Outcomes],
         Leave(k, r, f),
         Len(kern[k].queue) = Len(r.queue) + n,
         \A i \in 1 .. Len(r.queue) : r.queue[i] = kern[k].queue[i + n],
         \A q \in Requests : IF \E i \in 1 .. n : kern[k].queue[i] = q
                             THEN f[q] \in Outcomes ELSE f[q] = req[q],
         Exchange(r),
         r.proc = "running" => r.err,
         r.proc = "none" => ~Held(r),
         r.proc = "running" /\ r.queue # <<>> => r.op # "none",
         reply' \in [Requests -> Requests \cup {Nobody}],
         \A q \in Requests : f[q] = "answered" => reply'[q] = q,
         r.cin = kern[k].cin, r.proc = kern[k].proc,
         UNCHANGED <<closing, reaping>>, OtherTypes'
  PROVE  KInv'
PROOF
  <1>1. TypeOK /\ Queued /\ OwnAnswer /\ \A l \in Kernels : Sane(kern[l])
    BY SaneInv
  <1>2. kern[k].queue \in Seq(Requests) /\ r.queue \in Seq(Requests)
    BY <1>1 DEF TypeOK, Kernel
  <1>3. Len(kern[k].queue) \in Nat /\ Len(r.queue) \in Nat
    BY <1>2
  <1>4. req' = [q \in Requests |->
                  IF ~Held(r) /\ q \in Range(r.queue) THEN "closed" ELSE f[q]]
    BY DEF Leave
  <1>5. req' \in [Requests -> {"new", "waiting"} \cup Outcomes]
    BY <1>4 DEF Outcomes
  <1>6. \A q \in Requests : req'[q] = "answered" => reply'[q] = q
    BY <1>4
  <1>7. OwnAnswer'
    BY <1>6 DEF OwnAnswer
  <1>8. CASE Held(r)
    <2>1. kern' = [kern EXCEPT ![k] = r]
      BY <1>8 DEF Leave
    <2>2. \A q \in Requests : req'[q] = f[q]
      BY <1>8, <1>4
    <2>3. Queued'
      <3>1. \A q \in Requests : IF \E i \in 1 .. n : kern[k].queue[i] = q
                                 THEN req'[q] \in Outcomes ELSE req'[q] = req[q]
        BY <2>2
      <3>2. Len(kern[k].queue) = Len(r.queue) + n
        OBVIOUS
      <3>3. \A i \in 1 .. Len(r.queue) : r.queue[i] = kern[k].queue[i + n]
        OBVIOUS
      <3> QED
        BY ONLY <1>1, <2>1, <3>1, <3>2, <3>3, Suffix, k \in Kernels, r \in Kernel,
           n \in Nat, ZenonT(120)
    <2>4. Sane(r)
      BY <1>8 DEF Sane
    <2>5. \A l \in Kernels : Sane(kern'[l])
      BY <1>1, <2>1, <2>4 DEF TypeOK
    <2>6. TypeOK'
      BY <1>1, <1>5, <2>1 DEF TypeOK, OtherTypes
    <2>7. Awaited'
      BY <2>1, AwaitedKept
    <2> QED BY <1>7, <2>3, <2>5, <2>6, <2>7 DEF KInv, Sane, NotStuck
  <1>9. CASE ~Held(r)
    <2> DEFINE s == [r EXCEPT !.queue = <<>>]
               m == Len(kern[k].queue)
    <2>1. kern' = [kern EXCEPT ![k] = s]
      BY <1>9 DEF Leave
    <2>2. s \in Kernel
      <3>1. <<>> \in Seq(Requests)
        OBVIOUS
      <3> QED BY <3>1 DEF Kernel
    <2>3. /\ s.queue = <<>> /\ s.proc = r.proc /\ s.err = r.err /\ s.op = r.op /\ s.cin = r.cin
          /\ s.inbox = r.inbox /\ s.run = r.run /\ s.outbox = r.outbox
      BY DEF Kernel
    <2>4. \A q \in Requests : IF \E i \in 1 .. m : kern[k].queue[i] = q
                               THEN req'[q] \in Outcomes ELSE req'[q] = req[q]
      <3> SUFFICES ASSUME NEW q \in Requests
                   PROVE  IF \E i \in 1 .. m : kern[k].queue[i] = q
                          THEN req'[q] \in Outcomes ELSE req'[q] = req[q]
        OBVIOUS
      <3>1. CASE \E i \in 1 .. n : kern[k].queue[i] = q
        <4>1. f[q] \in Outcomes /\ \E i \in 1 .. m : kern[k].queue[i] = q
          BY <3>1, <1>3
        <4>2. req'[q] \in Outcomes
          BY <4>1, <1>4 DEF Outcomes
        <4> QED BY <4>1, <4>2
      <3>2. CASE q \in Range(r.queue)
        <4>1. PICK i \in 1 .. Len(r.queue) : r.queue[i] = q
          BY ONLY <3>2, <1>2, RangeFacts
        <4>2. i + n \in 1 .. m /\ kern[k].queue[i + n] = q
          BY <4>1, <1>3
        <4>3. req'[q] \in Outcomes
          BY <3>2, <1>4, <1>9 DEF Outcomes
        <4> QED BY <4>2, <4>3
      <3>3. CASE q \notin Range(r.queue) /\ ~ \E i \in 1 .. n : kern[k].queue[i] = q
        <4>1. req'[q] = f[q] /\ f[q] = req[q]
          BY <3>3, <1>4
        <4>2. ASSUME NEW i \in 1 .. m, kern[k].queue[i] = q
              PROVE  FALSE
          <5>1. i - n \in 1 .. Len(r.queue) /\ (i - n) + n = i
            BY <3>3, <4>2, <1>3
          <5>2. r.queue[i - n] = q
            BY <5>1, <4>2
          <5>3. r.queue[i - n] \in Range(r.queue)
            BY ONLY <5>1, <1>2, InRange
          <5> QED BY <5>2, <5>3, <3>3
        <4> QED BY <4>1, <4>2
      <3> QED BY <3>1, <3>2, <3>3
    <2>5. m \in Nat /\ m = Len(s.queue) + m /\ Len(s.queue) = 0
      BY <1>3, <2>3
    <2>6. Queued'
      <3> HIDE DEF s, m
      <3>1. \A i \in 1 .. Len(s.queue) : s.queue[i] = kern[k].queue[i + m]
        BY <2>5
      <3>2. Len(kern[k].queue) = Len(s.queue) + m
        BY <2>5 DEF m
      <3>3. m \in Nat
        BY <2>5
      <3> QED
        BY ONLY <1>1, <2>1, <2>2, <2>4, <3>1, <3>2, <3>3, Suffix, k \in Kernels,
           ZenonT(120)
    <2>7. Sane(s)
      <3>1. r.op = "none" /\ Nothing(r)
        BY <1>9 DEF Held, Exchange
      <3>2. s.op = "none" /\ Nothing(s)
        BY <2>3, <3>1 DEF Nothing
      <3> QED BY <2>3, <3>2, <1>9 DEF Sane, Exchange, Held
    <2>8. \A l \in Kernels : Sane(kern'[l])
      BY <1>1, <2>1, <2>7 DEF TypeOK
    <2>9. TypeOK'
      BY <1>1, <1>5, <2>1, <2>2 DEF TypeOK, OtherTypes
    <2>10. Awaited'
      <3> HIDE DEF s
      <3>1. s.cin = kern[k].cin /\ s.proc = kern[k].proc
        BY <2>3
      <3> QED BY <2>1, <2>2, <3>1, AwaitedKept
    <2> QED BY <1>7, <2>6, <2>8, <2>9, <2>10 DEF KInv, Sane, NotStuck
  <1> QED BY <1>8, <1>9
-----------------------------------------------------------------------------
(* The steps that change one kernel and no queue.                           *)
LEMMA CreateKeeps ==
  ASSUME KInv, NEW w \in Windows, NEW k \in Kernels, CreateKernel(w, k)
  PROVE  KInv'
PROOF
  <1> DEFINE r == [kern[k] EXCEPT !.proc = "running", !.err = TRUE]
  <1>1. TypeOK /\ kern[k] \in Kernel /\ Sane(kern[k])
    BY KernelFacts
  <1>2. kern' = [kern EXCEPT ![k] = r]
    BY <1>1 DEF TypeOK, CreateKernel
  <1>5. r \in Kernel
    BY <1>1 DEF Kernel
  <1>6. /\ r.proc = "running" /\ r.cin = kern[k].cin /\ r.err = TRUE /\ r.op = kern[k].op
        /\ r.queue = kern[k].queue /\ r.inbox = kern[k].inbox /\ r.run = kern[k].run
        /\ r.outbox = kern[k].outbox
    BY <1>1 DEF Kernel, CreateKernel
  <1>7. Sane(r)
    BY <1>1, <1>6 DEF Sane, Exchange, Front, Nothing, Held, CreateKernel
  <1>8. OtherTypes'
    BY <1>1 DEF OtherTypes, TypeOK, CreateKernel
  <1> HIDE DEF r
  <1>9. Awaited'
    BY <1>2, <1>5, <1>6, AwaitedKept DEF CreateKernel
  <1> QED BY <1>2, <1>5, <1>6, <1>7, <1>8, <1>9, SameQueue DEF CreateKernel

(* The front request enters the pipe, which is empty.                       *)
LEMMA DeliverKeeps ==
  ASSUME KInv, NEW k \in Kernels, Deliver(k)
  PROVE  KInv'
PROOF
  <1> DEFINE in == Append(kern[k].inbox, Head(kern[k].queue))
             r == [kern[k] EXCEPT !.op = "sent", !.inbox = in]
  <1>1. TypeOK /\ kern[k] \in Kernel /\ Sane(kern[k])
    BY KernelFacts
  <1>2. kern' = [kern EXCEPT ![k] = r]
    BY <1>1 DEF TypeOK, Deliver
  <1>3. kern[k].queue \in Seq(Requests) /\ kern[k].queue # <<>> /\ kern[k].inbox = <<>>
    BY <1>1 DEF Kernel, Deliver, Sane, Exchange, Nothing
  <1>4. in = <<Head(kern[k].queue)>> /\ in \in Seq(Requests)
    BY <1>3, TailFacts, SingleFacts
  <1> HIDE DEF in
  <1>5. r \in Kernel
    BY <1>1, <1>4 DEF Kernel
  <1>6. /\ r.proc = kern[k].proc /\ r.cin = kern[k].cin /\ r.err = kern[k].err /\ r.op = "sent"
        /\ r.queue = kern[k].queue /\ r.inbox = in /\ r.run = kern[k].run
        /\ r.outbox = kern[k].outbox
    BY <1>1 DEF Kernel, Deliver
  <1>7. Sane(r)
    BY <1>1, <1>6, <1>3, <1>4 DEF Sane, Exchange, Front, Nothing, Held, Deliver
  <1>8. OtherTypes'
    BY <1>1 DEF OtherTypes, TypeOK, Deliver
  <1> HIDE DEF r
  <1>9. Awaited'
    BY <1>2, <1>5, <1>6, AwaitedKept DEF Deliver
  <1> QED BY <1>2, <1>5, <1>6, <1>7, <1>8, <1>9, SameQueue DEF Deliver

(* Writing is over, reading begins: the request is where it was.            *)
LEMMA SentKeeps ==
  ASSUME KInv, NEW k \in Kernels, Sent(k)
  PROVE  KInv'
PROOF
  <1> DEFINE r == [kern[k] EXCEPT !.op = "read"]
  <1>1. TypeOK /\ kern[k] \in Kernel /\ Sane(kern[k])
    BY KernelFacts
  <1>2. kern' = [kern EXCEPT ![k] = r]
    BY <1>1 DEF TypeOK, Sent
  <1>5. r \in Kernel
    BY <1>1 DEF Kernel
  <1>6. /\ r.proc = kern[k].proc /\ r.cin = kern[k].cin /\ r.err = kern[k].err /\ r.op = "read"
        /\ r.queue = kern[k].queue /\ r.inbox = kern[k].inbox /\ r.run = kern[k].run
        /\ r.outbox = kern[k].outbox
    BY <1>1 DEF Kernel, Sent
  <1>7. Sane(r)
    BY <1>1, <1>6 DEF Sane, Exchange, Front, Nothing, Held, Sent
  <1>8. OtherTypes'
    BY <1>1 DEF OtherTypes, TypeOK, Sent
  <1> HIDE DEF r
  <1>9. Awaited'
    BY <1>2, <1>5, <1>6, AwaitedKept, ZenonT(120) DEF Sent
  <1> QED BY <1>2, <1>5, <1>6, <1>7, <1>8, <1>9, SameQueue DEF Sent

(* The request moves from the pipe to the pool of the child.                *)
LEMMA BeginKeeps ==
  ASSUME KInv, NEW k \in Kernels, Begin(k)
  PROVE  KInv'
PROOF
  <1> DEFINE first == Head(kern[k].inbox)
             in == Tail(kern[k].inbox)
             r == [kern[k] EXCEPT !.run = first, !.inbox = in]
  <1>1. TypeOK /\ kern[k] \in Kernel /\ Sane(kern[k])
    BY KernelFacts
  <1>2. kern' = [kern EXCEPT ![k] = r]
    BY <1>1 DEF TypeOK, Begin
  <1>3. /\ kern[k].inbox = <<Head(kern[k].queue)>> /\ kern[k].outbox = <<>>
        /\ kern[k].op \in {"sent", "read"} /\ kern[k].queue # <<>>
        /\ kern[k].queue \in Seq(Requests)
    BY <1>1 DEF Kernel, Begin, Sane, Exchange, Front, Nothing
  <1>4. first = Head(kern[k].queue) /\ in = <<>> /\ first \in Requests /\ in \in Seq(Requests)
    BY <1>3, TailFacts, SingleFacts
  <1> HIDE DEF first, in
  <1>5. r \in Kernel
    BY <1>1, <1>4 DEF Kernel
  <1>6. /\ r.proc = kern[k].proc /\ r.cin = kern[k].cin /\ r.err = kern[k].err /\ r.op = kern[k].op
        /\ r.queue = kern[k].queue /\ r.inbox = in /\ r.run = first
        /\ r.outbox = kern[k].outbox
    BY <1>1 DEF Kernel, Begin
  <1>7. Sane(r)
    BY <1>1, <1>6, <1>3, <1>4 DEF Sane, Exchange, Front, Nothing, Held, Begin
  <1>8. OtherTypes'
    BY <1>1 DEF OtherTypes, TypeOK, Begin
  <1> HIDE DEF r
  <1>9. Awaited'
    BY <1>2, <1>5, <1>6, AwaitedKept DEF Begin
  <1> QED BY <1>2, <1>5, <1>6, <1>7, <1>8, <1>9, SameQueue DEF Begin

(* The response of the front request enters the other pipe.                 *)
LEMMA RespondKeeps ==
  ASSUME KInv, NEW k \in Kernels, Respond(k)
  PROVE  KInv'
PROOF
  <1> DEFINE out == Append(kern[k].outbox, kern[k].run)
             r == [kern[k] EXCEPT !.outbox = out, !.run = Nobody]
  <1>1. TypeOK /\ kern[k] \in Kernel /\ Sane(kern[k])
    BY KernelFacts
  <1>2. kern' = [kern EXCEPT ![k] = r]
    BY <1>1 DEF TypeOK, Respond
  <1>3. /\ kern[k].run = Head(kern[k].queue) /\ kern[k].run \in Requests
        /\ kern[k].inbox = <<>> /\ kern[k].outbox = <<>>
        /\ kern[k].op \in {"sent", "read"} /\ kern[k].queue # <<>>
    BY <1>1, NobodyAssumption DEF Respond, Sane, Exchange, Front, Nothing
  <1>4. out = <<Head(kern[k].queue)>> /\ out \in Seq(Requests)
    BY <1>3, SingleFacts
  <1> HIDE DEF out
  <1>5. r \in Kernel
    BY <1>1, <1>4 DEF Kernel
  <1>6. /\ r.proc = kern[k].proc /\ r.cin = kern[k].cin /\ r.err = kern[k].err /\ r.op = kern[k].op
        /\ r.queue = kern[k].queue /\ r.inbox = kern[k].inbox /\ r.run = Nobody
        /\ r.outbox = out
    BY <1>1 DEF Kernel, Respond
  <1>7. Sane(r)
    BY <1>1, <1>6, <1>3, <1>4 DEF Sane, Exchange, Front, Nothing, Held, Respond
  <1>8. OtherTypes'
    BY <1>1 DEF OtherTypes, TypeOK, Respond
  <1> HIDE DEF r
  <1>9. Awaited'
    BY <1>2, <1>5, <1>6, AwaitedKept DEF Respond
  <1> QED BY <1>2, <1>5, <1>6, <1>7, <1>8, <1>9, SameQueue DEF Respond

(* A process that stops has nothing of the queue.                           *)
LEMMA StopsKeeps ==
  ASSUME KInv, NEW k \in Kernels, Stops(k)
  PROVE  KInv'
PROOF
  <1> DEFINE r == [kern[k] EXCEPT !.proc = "dying"]
  <1>1. TypeOK /\ kern[k] \in Kernel /\ Sane(kern[k])
    BY KernelFacts
  <1>2. kern' = [kern EXCEPT ![k] = r]
    BY <1>1 DEF TypeOK, Stops
  <1>5. r \in Kernel
    BY <1>1 DEF Kernel
  <1>6. /\ r.proc = "dying" /\ r.cin = kern[k].cin /\ r.err = kern[k].err /\ r.op = kern[k].op
        /\ r.queue = kern[k].queue /\ r.inbox = kern[k].inbox /\ r.run = kern[k].run
        /\ r.outbox = kern[k].outbox
    BY <1>1 DEF Kernel, Stops
  <1>7. Sane(r)
    BY <1>1, <1>6 DEF Sane, Exchange, Front, Nothing, Held, Stops
  <1>8. OtherTypes'
    BY <1>1 DEF OtherTypes, TypeOK, Stops
  <1> HIDE DEF r
  <1>9. Awaited'
    BY <1>2, <1>5, <1>6, AwaitedKept DEF Stops
  <1> QED BY <1>2, <1>5, <1>6, <1>7, <1>8, <1>9, SameQueue DEF Stops

(* A process that dies loses what it had.                                   *)
LEMMA CrashKeeps ==
  ASSUME KInv, NEW k \in Kernels, Crash(k)
  PROVE  KInv'
PROOF
  <1> DEFINE r == [kern[k] EXCEPT !.proc = "dying", !.inbox = <<>>, !.run = Nobody]
  <1>1. TypeOK /\ kern[k] \in Kernel /\ Sane(kern[k])
    BY KernelFacts
  <1>2. kern' = [kern EXCEPT ![k] = r]
    BY <1>1 DEF TypeOK, Crash
  <1>3. <<>> \in Seq(Requests)
    OBVIOUS
  <1>5. r \in Kernel
    BY <1>1, <1>3 DEF Kernel
  <1>6. /\ r.proc = "dying" /\ r.cin = kern[k].cin /\ r.err = kern[k].err /\ r.op = kern[k].op
        /\ r.queue = kern[k].queue /\ r.inbox = <<>> /\ r.run = Nobody
        /\ r.outbox = kern[k].outbox
    BY <1>1 DEF Kernel, Crash
  <1>7. Sane(r)
    BY <1>1, <1>6 DEF Sane, Exchange, Front, Nothing, Held, Crash
  <1>8. OtherTypes'
    BY <1>1 DEF OtherTypes, TypeOK, Crash
  <1> HIDE DEF r
  <1>9. Awaited'
    BY <1>2, <1>5, <1>6, AwaitedKept DEF Crash
  <1> QED BY <1>2, <1>5, <1>6, <1>7, <1>8, <1>9, SameQueue DEF Crash

(* The process is reaped.                                                   *)
LEMMA ExitKeeps ==
  ASSUME KInv, NEW k \in Kernels, Exit(k)
  PROVE  KInv'
PROOF
  <1> DEFINE r == [kern[k] EXCEPT !.proc = "exited"]
  <1>1. TypeOK /\ kern[k] \in Kernel /\ Sane(kern[k])
    BY KernelFacts
  <1>2. kern' = [kern EXCEPT ![k] = r]
    BY <1>1 DEF TypeOK, Exit
  <1>5. r \in Kernel
    BY <1>1 DEF Kernel
  <1>6. /\ r.proc = "exited" /\ r.cin = kern[k].cin /\ r.err = kern[k].err /\ r.op = kern[k].op
        /\ r.queue = kern[k].queue /\ r.inbox = kern[k].inbox /\ r.run = kern[k].run
        /\ r.outbox = kern[k].outbox
    BY <1>1 DEF Kernel, Exit
  <1>7. Sane(r)
    BY <1>1, <1>6 DEF Sane, Exchange, Front, Nothing, Held, Exit
  <1>8. OtherTypes'
    BY <1>1 DEF OtherTypes, TypeOK, Exit
  <1> HIDE DEF r
  <1>9. Awaited'
    BY <1>2, <1>5, <1>6, AwaitedKept DEF Exit
  <1> QED BY <1>2, <1>5, <1>6, <1>7, <1>8, <1>9, SameQueue DEF Exit

(* The process is terminated and waited for.                                *)
LEMMA KillKeeps ==
  ASSUME KInv, NEW w \in Windows, NEW k \in Kernels, KillKernel(w, k)
  PROVE  KInv'
PROOF
  <1> DEFINE r == IF Held(kern[k]) THEN Terminated(kern[k]) ELSE kern[k]
  <1>1. TypeOK /\ kern[k] \in Kernel /\ Sane(kern[k])
    BY KernelFacts
  <1>2. kern' = [kern EXCEPT ![k] = r]
    BY <1>1 DEF TypeOK, KillKernel
  <1>3. OtherTypes'
    BY <1>1 DEF OtherTypes, TypeOK, KillKernel
  <1>4. r \in Kernel /\ r.queue = kern[k].queue /\ r.cin = kern[k].cin /\ Sane(r)
        /\ (kern[k].proc = "exited" => r.proc = "exited")
    <2>1. CASE Held(kern[k])
      <3> DEFINE t == [kern[k] EXCEPT !.proc = "exited", !.inbox = <<>>, !.run = Nobody]
      <3>1. r = t
        BY <2>1 DEF Terminated
      <3>2. <<>> \in Seq(Requests)
        OBVIOUS
      <3>3. t \in Kernel
        BY <1>1, <3>2 DEF Kernel
      <3>4. /\ t.proc = "exited" /\ t.cin = kern[k].cin /\ t.err = kern[k].err /\ t.op = kern[k].op
            /\ t.queue = kern[k].queue /\ t.inbox = <<>> /\ t.run = Nobody
            /\ t.outbox = kern[k].outbox
        BY <1>1 DEF Kernel
      <3>5. Sane(t)
        BY <1>1, <3>4 DEF Sane, Exchange, Front, Nothing, Held
      <3> HIDE DEF t
      <3> QED BY <3>1, <3>3, <3>4, <3>5
    <2>2. CASE ~Held(kern[k])
      BY <1>1, <2>2
    <2> QED BY <2>1, <2>2
  <1> HIDE DEF r
  <1>5. Awaited'
    BY <1>2, <1>4, AwaitedKept DEF KillKernel
  <1> QED BY <1>2, <1>3, <1>4, <1>5, SameQueue DEF KillKernel

(* The I/O thread starts waiting.                                           *)
LEMMA CloseKeeps ==
  ASSUME KInv, NEW k \in Kernels, CloseKernel(k)
  PROVE  KInv'
PROOF
  <1>1. TypeOK /\ kern[k] \in Kernel /\ Sane(kern[k]) /\ Awaited
    BY KernelFacts, SaneInv
  <1>2. OtherTypes'
    BY <1>1 DEF OtherTypes, TypeOK, CloseKernel
  <1>3. CASE Held(kern[k])
    <2> DEFINE r == [kern[k] EXCEPT !.cin = FALSE]
    <2>1. kern' = [kern EXCEPT ![k] = r] /\ reaping' = k /\ closing' = closing
      BY <1>1, <1>3 DEF TypeOK, CloseKernel
    <2>2. r \in Kernel
      BY <1>1 DEF Kernel
    <2>3. /\ r.proc = kern[k].proc /\ r.err = kern[k].err /\ r.op = kern[k].op
          /\ r.queue = kern[k].queue /\ r.inbox = kern[k].inbox /\ r.run = kern[k].run
          /\ r.outbox = kern[k].outbox
      BY <1>1 DEF Kernel
    <2>4. Sane(r)
      BY <1>1, <2>3 DEF Sane, Exchange, Front, Nothing, Held
    <2> HIDE DEF r
    <2>5. \A l \in Kernels : kern'[l] = IF l = k THEN r ELSE kern[l]
      BY <1>1, <2>1 DEF TypeOK
    <2>6. Awaited'
      BY <1>1, <2>1, <2>5, NobodyAssumption DEF Awaited, Free, CloseKernel
    <2> QED BY <1>2, <2>1, <2>2, <2>3, <2>4, <2>6, SameQueue DEF CloseKernel
  <1>4. CASE ~Held(kern[k])
    <2>1. Awaited'
      BY <1>1, <1>4 DEF Awaited, Free, CloseKernel
    <2> QED BY <1>2, <1>4, <2>1, Quiet DEF CloseKernel
  <1> QED BY <1>3, <1>4
-----------------------------------------------------------------------------
(* The steps that change no kernel and no request.                          *)
LEMMA WindowKeeps ==
  ASSUME KInv, NEW w \in Windows, OpenWindow(w) \/ LoseWindow(w) \/ Prune(w)
  PROVE  KInv'
PROOF
  <1>1. TypeOK /\ Awaited
    BY SaneInv
  <1>2. CASE OpenWindow(w)
    <2>1. OtherTypes' /\ Awaited'
      BY <1>1, <1>2 DEF OtherTypes, TypeOK, Awaited, Free, OpenWindow
    <2> QED BY <1>2, <2>1, Quiet DEF OpenWindow
  <1>3. CASE LoseWindow(w)
    <2>1. OtherTypes' /\ Awaited'
      BY <1>1, <1>3, NobodyAssumption DEF OtherTypes, TypeOK, Awaited, Free, LoseWindow
    <2> QED BY <1>3, <2>1, Quiet DEF LoseWindow
  <1>4. CASE Prune(w)
    <2>1. OtherTypes' /\ Awaited'
      BY <1>1, <1>4 DEF OtherTypes, TypeOK, Awaited, Free, Prune
    <2> QED BY <1>4, <2>1, Quiet DEF Prune
  <1> QED BY <1>2, <1>3, <1>4

(* The I/O thread has waited long enough.                                   *)
LEMMA ClosingKeeps ==
  ASSUME KInv, Reap \/ Closed
  PROVE  KInv'
PROOF
  <1>1. TypeOK /\ Awaited
    BY SaneInv
  <1>2. CASE Reap
    <2>1. OtherTypes' /\ Awaited'
      BY <1>1, <1>2 DEF OtherTypes, TypeOK, Awaited, Free, Reap
    <2> QED BY <1>2, <2>1, Quiet DEF Reap
  <1>3. CASE Closed
    <2>1. OtherTypes' /\ Awaited'
      BY <1>1, <1>3 DEF OtherTypes, TypeOK, Awaited, Free, Closed
    <2> QED BY <1>3, <2>1, Quiet DEF Closed
  <1> QED BY <1>2, <1>3
-----------------------------------------------------------------------------
(* A client makes a request: it is queued, or has an outcome at once.       *)
LEMMA ExecKeeps ==
  ASSUME KInv, NEW q \in Requests, NEW w \in Windows, NEW k \in Kernels, Exec(q, w, k)
  PROVE  KInv'
PROOF
  <1>1. /\ TypeOK /\ kern[k] \in Kernel /\ Queued /\ OwnAnswer /\ Awaited
        /\ \A l \in Kernels : Sane(kern[l])
    BY KernelFacts, SaneInv
  <1>2. OtherTypes' /\ req[q] = "new" /\ reply' = reply /\ UNCHANGED <<closing, reaping>>
    BY <1>1 DEF OtherTypes, TypeOK, Exec
  <1>3. CASE Found(w, k) /\ Live(k)
    <2> DEFINE o == IF Len(kern[k].queue) = 0 THEN "write" ELSE kern[k].op
               new == Append(kern[k].queue, q)
               r == [kern[k] EXCEPT !.queue = new, !.op = o]
    <2>1. kern' = [kern EXCEPT ![k] = Posted(k, q)] /\ req' = [req EXCEPT ![q] = "waiting"]
      BY <1>3 DEF Exec
    <2>2. Posted(k, q) = r
      BY <1>1 DEF Posted, Kernel
    <2>3. /\ kern[k].queue \in Seq(Requests)
          /\ new \in Seq(Requests) /\ new # <<>>
          /\ kern[k].queue # <<>> => Head(new) = Head(kern[k].queue)
      BY <1>1, AppendFacts DEF Kernel
    <2>4. /\ kern[k].queue = <<>> => o = "write"
          /\ kern[k].queue # <<>> => o = kern[k].op
          /\ o \in {"none", "write", "sent", "read"}
      BY <1>1, <2>3 DEF Kernel
    <2> HIDE DEF o, new
    <2>5. r \in Kernel
      BY <1>1, <2>3, <2>4 DEF Kernel
    <2>6. /\ r.proc = kern[k].proc /\ r.cin = kern[k].cin /\ r.err = kern[k].err /\ r.op = o
          /\ r.queue = new /\ r.inbox = kern[k].inbox /\ r.run = kern[k].run
          /\ r.outbox = kern[k].outbox
      BY <1>1 DEF Kernel
    <2>7. kern[k].proc # "none" /\ Held(kern[k]) /\ Sane(kern[k])
      BY <1>1, <1>3 DEF Live, Found
    <2>8. Sane(r)
      BY <2>3, <2>4, <2>6, <2>7 DEF Sane, Exchange, Front, Nothing, Held
    <2> HIDE DEF r
    <2>9. kern' = [kern EXCEPT ![k] = r]
      BY <2>1, <2>2
    <2>10. Queued'
      <3>1. r.queue = Append(kern[k].queue, q)
        BY <2>6 DEF new
      <3> QED BY <1>1, <1>2, <2>1, <2>5, <2>9, <3>1, Push
    <2>11. TypeOK'
      BY <1>1, <1>2, <2>1, <2>5, <2>9 DEF TypeOK, OtherTypes
    <2>12. \A l \in Kernels : Sane(kern'[l])
      BY <1>1, <2>8, <2>9 DEF TypeOK
    <2>13. OwnAnswer'
      BY <1>1, <1>2, <2>1 DEF OwnAnswer, TypeOK
    <2>14. Awaited'
      BY <1>2, <2>5, <2>6, <2>9, AwaitedKept
    <2> QED BY <2>10, <2>11, <2>12, <2>13, <2>14 DEF KInv, Sane, NotStuck
  <1>4. CASE ~(Found(w, k) /\ Live(k))
    <2>1. kern' = kern /\ \E o \in {"closed", "server"} : req' = [req EXCEPT ![q] = o]
      BY <1>4 DEF Exec
    <2>2. \A p \in Requests : req'[p] = "waiting" <=> req[p] = "waiting"
      BY <1>1, <1>2, <2>1 DEF TypeOK
    <2>3. Queued'
      <3>1. \A l \in Kernels : \A i \in 1 .. Len(kern[l].queue) : kern[l].queue[i] \in Requests
        BY <1>1 DEF TypeOK, Kernel
      <3> QED BY <1>1, <2>1, <2>2, <3>1 DEF Queued
    <2>4. TypeOK'
      BY <1>1, <1>2, <2>1 DEF TypeOK, OtherTypes, Outcomes
    <2>5. OwnAnswer'
      BY <1>1, <1>2, <2>1 DEF OwnAnswer, TypeOK
    <2>6. Awaited' /\ \A l \in Kernels : Sane(kern'[l])
      BY <1>1, <1>2, <2>1 DEF Awaited, Free
    <2> QED BY <2>3, <2>4, <2>5, <2>6 DEF KInv, Sane, NotStuck
  <1> QED BY <1>3, <1>4
-----------------------------------------------------------------------------
(* The two ways in which a handler leaves: the queue is as it was, or its   *)
(* front has an outcome.                                                    *)
LEMMA LeaveNone ==
  ASSUME KInv, NEW k \in Kernels, NEW r \in Kernel,
         Leave(k, r, req), r.queue = kern[k].queue, Exchange(r),
         r.proc # "running", r.proc # "none", reply' = reply,
         r.cin = kern[k].cin, r.proc = kern[k].proc,
         UNCHANGED <<closing, reaping>>, OtherTypes'
  PROVE  KInv'
PROOF
  <1>1. TypeOK /\ OwnAnswer /\ kern[k].queue \in Seq(Requests)
    BY SaneInv DEF TypeOK, Kernel
  <1>2. /\ Len(kern[k].queue) = Len(r.queue) + 0
        /\ \A i \in 1 .. Len(r.queue) : r.queue[i] = kern[k].queue[i + 0]
    BY <1>1
  <1>3. \A q \in Requests : IF \E i \in 1 .. 0 : kern[k].queue[i] = q
                             THEN req[q] \in Outcomes ELSE req[q] = req[q]
    OBVIOUS
  <1>4. /\ reply' \in [Requests -> Requests \cup {Nobody}]
        /\ \A q \in Requests : req[q] = "answered" => reply'[q] = q
        /\ req \in [Requests -> {"new", "waiting"} \cup Outcomes]
    BY <1>1 DEF TypeOK, OwnAnswer
  <1>5. /\ r.proc = "running" => r.err
        /\ r.proc = "none" => ~Held(r)
        /\ r.proc = "running" /\ r.queue # <<>> => r.op # "none"
        /\ 0 \in Nat
    OBVIOUS
  <1> QED BY <1>2, <1>3, <1>4, <1>5, LeaveKeeps

LEMMA LeaveFront ==
  ASSUME KInv, NEW k \in Kernels, NEW r, NEW o \in Outcomes, NEW f,
         r = [Popped(k) EXCEPT !.outbox = <<>>],
         f = [req EXCEPT ![Head(kern[k].queue)] = o],
         Leave(k, r, f),
         kern[k].queue # <<>>, kern[k].inbox = <<>>, kern[k].run = Nobody,
         kern[k].proc # "none",
         reply' \in [Requests -> Requests \cup {Nobody}],
         \A q \in Requests : f[q] = "answered" => reply'[q] = q,
         UNCHANGED <<closing, reaping>>, OtherTypes'
  PROVE  KInv'
PROOF
  <1> DEFINE old == kern[k].queue
             new == Tail(old)
             o1 == IF Len(old) > 1 /\ Live(k) THEN "write" ELSE "none"
             s == [kern[k] EXCEPT !.queue = new, !.op = o1, !.outbox = <<>>]
  <1>1. TypeOK /\ kern[k] \in Kernel /\ Sane(kern[k]) /\ old \in Seq(Requests)
    BY KernelFacts DEF Kernel
  <1>2. /\ Head(old) \in Requests /\ Head(old) = old[1] /\ new \in Seq(Requests)
        /\ Len(old) = Len(new) + 1
        /\ \A i \in 1 .. Len(new) : new[i] = old[i + 1]
        /\ (Len(old) > 1 <=> new # <<>>)
        /\ <<>> \in Seq(Requests)
    BY <1>1, TailFacts
  <1>3. r = s
    BY DEF Popped
  <1>4. o1 \in {"none", "write"} /\ (o1 = "write" <=> new # <<>> /\ Live(k))
    BY <1>2
  <1> HIDE DEF o1, new, s, old
  <1>5. s \in Kernel
    BY <1>1, <1>2, <1>4 DEF Kernel, s
  <1>6. /\ s.proc = kern[k].proc /\ s.cin = kern[k].cin /\ s.err = kern[k].err /\ s.op = o1
        /\ s.queue = new /\ s.inbox = <<>> /\ s.run = Nobody /\ s.outbox = <<>>
    BY <1>1 DEF Kernel, s
  <1>7. Exchange(r)
    BY <1>3, <1>4, <1>6 DEF Exchange, Nothing
  <1>8. /\ r.proc = "running" => r.err
        /\ r.proc = "none" => ~Held(r)
        /\ r.proc = "running" /\ r.queue # <<>> => r.op # "none"
    BY <1>1, <1>3, <1>4, <1>6 DEF Sane, Live
  <1>9. f \in [Requests -> {"new", "waiting"} \cup Outcomes]
    BY <1>1 DEF TypeOK
  <1>10. \A q \in Requests : IF \E i \in 1 .. 1 : kern[k].queue[i] = q
                              THEN f[q] \in Outcomes ELSE f[q] = req[q]
    <2>1. SUFFICES ASSUME NEW q \in Requests
                   PROVE  IF kern[k].queue[1] = q THEN f[q] \in Outcomes ELSE f[q] = req[q]
      OBVIOUS
    <2>2. Head(old) = kern[k].queue[1]
      BY <1>2 DEF old
    <2>3. f[q] = IF q = Head(old) THEN o ELSE req[q]
      BY <1>1 DEF TypeOK, old
    <2> QED BY <2>2, <2>3
  <1>11. /\ Len(kern[k].queue) = Len(r.queue) + 1
         /\ \A i \in 1 .. Len(r.queue) : r.queue[i] = kern[k].queue[i + 1]
         /\ 1 \in Nat
    BY <1>2, <1>3, <1>6 DEF old
  <1>12. r \in Kernel /\ r.cin = kern[k].cin /\ r.proc = kern[k].proc
    BY <1>3, <1>5, <1>6
  <1>13. /\ reply' \in [Requests -> Requests \cup {Nobody}]
         /\ \A q \in Requests : f[q] = "answered" => reply'[q] = q
    OBVIOUS
  <1>14. KInv /\ Leave(k, r, f) /\ UNCHANGED <<closing, reaping>> /\ OtherTypes'
    OBVIOUS
  <1> QED BY ONLY <1>7, <1>8, <1>9, <1>10, <1>11, <1>12, <1>13, <1>14, LeaveKeeps, k \in Kernels
-----------------------------------------------------------------------------
(* The handlers that leave without finishing a request.                     *)
LEMMA SendFailsKeeps ==
  ASSUME KInv, NEW k \in Kernels, SendFails(k)
  PROVE  KInv'
PROOF
  <1> DEFINE r == [kern[k] EXCEPT !.op = "none"]
  <1>1. /\ TypeOK /\ kern[k] \in Kernel /\ Sane(kern[k]) /\ OwnAnswer /\ Awaited
        /\ Queued
    BY KernelFacts, SaneInv
  <1>2. r \in Kernel
    BY <1>1 DEF Kernel
  <1>3. /\ r.proc = kern[k].proc /\ r.cin = kern[k].cin /\ r.err = kern[k].err /\ r.op = "none"
        /\ r.queue = kern[k].queue /\ r.inbox = kern[k].inbox /\ r.run = kern[k].run
        /\ r.outbox = kern[k].outbox
    BY <1>1 DEF Kernel
  <1>4. r.proc # "running" /\ r.proc # "none" /\ Nothing(r)
    <2>1. Nothing(kern[k]) /\ kern[k].proc # "none"
      BY <1>1 DEF SendFails, Sane, Exchange, Nothing, Held
    <2>2. kern[k].proc # "running"
      BY <1>1, NobodyAssumption DEF SendFails, Awaited, Free
    <2> QED BY <1>3, <2>1, <2>2 DEF Nothing
  <1>5. Leave(k, r, req)
    BY DEF SendFails
  <1>6. Exchange(r)
    BY <1>3, <1>4 DEF Exchange
  <1>7. OtherTypes' /\ reply' = reply /\ UNCHANGED <<closing, reaping>>
    BY <1>1 DEF OtherTypes, TypeOK, SendFails
  <1> HIDE DEF r
  <1> QED BY <1>1, <1>2, <1>3, <1>4, <1>5, <1>6, <1>7, LeaveNone

(* The reader of standard error leaves.                                     *)
LEMMA ErrEndsKeeps ==
  ASSUME KInv, NEW k \in Kernels, ErrEnds(k)
  PROVE  KInv'
PROOF
  <1> DEFINE r == [kern[k] EXCEPT !.err = FALSE]
  <1>1. TypeOK /\ kern[k] \in Kernel /\ Sane(kern[k])
    BY KernelFacts
  <1>2. r \in Kernel
    BY <1>1 DEF Kernel
  <1>3. /\ r.proc = kern[k].proc /\ r.cin = kern[k].cin /\ r.err = FALSE /\ r.op = kern[k].op
        /\ r.queue = kern[k].queue /\ r.inbox = kern[k].inbox /\ r.run = kern[k].run
        /\ r.outbox = kern[k].outbox
    BY <1>1 DEF Kernel
  <1>4. r.proc # "running" /\ r.proc # "none"
    BY <1>1, <1>3 DEF ErrEnds, Sane, Held
  <1>5. Leave(k, r, req)
    BY DEF ErrEnds
  <1>6. Exchange(r)
    BY <1>1, <1>3 DEF Exchange, Sane, Front, Nothing
  <1>7. OtherTypes' /\ reply' = reply /\ UNCHANGED <<closing, reaping>>
    BY <1>1 DEF OtherTypes, TypeOK, ErrEnds
  <1> HIDE DEF r
  <1> QED BY <1>1, <1>2, <1>3, <1>4, <1>5, <1>6, <1>7, LeaveNone
-----------------------------------------------------------------------------
(* The handler that finishes the front request, with a result or, when the  *)
(* child has closed its output, without.                                    *)
LEMMA AnswerKeeps ==
  ASSUME KInv, NEW k \in Kernels, Answer(k)
  PROVE  KInv'
PROOF
  <1> DEFINE front == Head(kern[k].queue)
             r == [Popped(k) EXCEPT !.outbox = Tail(@)]
             f == [req EXCEPT ![front] = "answered"]
  <1>1. TypeOK /\ kern[k] \in Kernel /\ Sane(kern[k])
    BY KernelFacts
  <1>2. /\ kern[k].queue \in Seq(Requests) /\ kern[k].queue # <<>> /\ front \in Requests
        /\ kern[k].outbox = <<front>> /\ kern[k].inbox = <<>> /\ kern[k].run = Nobody
        /\ kern[k].proc # "none"
    <2>1. kern[k].queue \in Seq(Requests) /\ kern[k].queue # <<>>
      BY <1>1 DEF Kernel, Answer, Sane, Exchange
    <2>2. front \in Requests
      BY <2>1, TailFacts
    <2> QED BY <1>1, <2>1, <2>2 DEF Answer, Sane, Exchange, Front, Nothing, Held
  <1>3. Head(kern[k].outbox) = front /\ Tail(kern[k].outbox) = <<>> /\ <<>> \in Seq(Requests)
    BY <1>2, SingleFacts
  <1>4. r = [Popped(k) EXCEPT !.outbox = <<>>]
    <2>1. Popped(k).outbox = kern[k].outbox
      BY <1>1 DEF Kernel, Popped
    <2> QED BY <1>3, <2>1
  <1>5. Leave(k, r, f) /\ reply' = [reply EXCEPT ![front] = front]
    BY <1>3 DEF Answer
  <1>6. OtherTypes' /\ UNCHANGED <<closing, reaping>>
    BY <1>1 DEF OtherTypes, TypeOK, Answer
  <1>7. reply' \in [Requests -> Requests \cup {Nobody}]
    BY <1>1, <1>2, <1>5 DEF TypeOK
  <1>8. \A q \in Requests : f[q] = "answered" => reply'[q] = q
    BY <1>1, <1>2, <1>5, SaneInv DEF TypeOK, OwnAnswer
  <1> HIDE DEF r
  <1>9. "answered" \in Outcomes
    BY DEF Outcomes
  <1>10. f = [req EXCEPT ![Head(kern[k].queue)] = "answered"]
    OBVIOUS
  <1> HIDE DEF f, front
  <1>11. KInv /\ Leave(k, r, f)
    BY <1>5
  <1>12. /\ kern[k].queue # <<>> /\ kern[k].inbox = <<>> /\ kern[k].run = Nobody
         /\ kern[k].proc # "none"
    BY <1>2
  <1> QED
    BY ONLY <1>4, <1>6, <1>7, <1>8, <1>9, <1>10, <1>11, <1>12, LeaveFront,
       k \in Kernels, ZenonT(120)

(* The front request is finished without a result.                          *)
LEMMA ReadFailsKeeps ==
  ASSUME KInv, NEW k \in Kernels, ReadFails(k)
  PROVE  KInv'
PROOF
  <1> DEFINE front == Head(kern[k].queue)
             r == [Popped(k) EXCEPT !.outbox = <<>>]
             f == [req EXCEPT ![front] = "empty"]
  <1>1. TypeOK /\ kern[k] \in Kernel /\ Sane(kern[k])
    BY KernelFacts
  <1>2. /\ kern[k].queue \in Seq(Requests) /\ kern[k].queue # <<>> /\ front \in Requests
        /\ kern[k].inbox = <<>> /\ kern[k].run = Nobody /\ kern[k].proc # "none"
    <2>1. kern[k].queue \in Seq(Requests) /\ kern[k].queue # <<>>
      BY <1>1 DEF Kernel, ReadFails, Sane, Exchange
    <2>2. front \in Requests
      BY <2>1, TailFacts
    <2> QED BY <1>1, <2>1, <2>2 DEF ReadFails, Sane, Exchange, Front, Nothing, Held
  <1>3. r = Popped(k)
    <2>1. kern[k].outbox = <<>>
      BY DEF ReadFails
    <2> QED BY <1>1, <2>1 DEF Kernel, Popped
  <1>4. Leave(k, r, f) /\ reply' = reply
    BY <1>3 DEF ReadFails
  <1>5. OtherTypes' /\ UNCHANGED <<closing, reaping>>
    BY <1>1 DEF OtherTypes, TypeOK, ReadFails
  <1>6. \A q \in Requests : f[q] = "answered" => reply'[q] = q
    BY <1>1, <1>2, <1>4, SaneInv DEF TypeOK, OwnAnswer
  <1>7. reply' \in [Requests -> Requests \cup {Nobody}]
    BY <1>1, <1>4 DEF TypeOK
  <1> HIDE DEF r
  <1>8. r = [Popped(k) EXCEPT !.outbox = <<>>]
    BY DEF r
  <1>9. "empty" \in Outcomes
    BY DEF Outcomes
  <1>10. f = [req EXCEPT ![Head(kern[k].queue)] = "empty"]
    OBVIOUS
  <1> HIDE DEF f, front
  <1> QED BY <1>2, <1>4, <1>5, <1>6, <1>7, <1>8, <1>9, <1>10, LeaveFront, ZenonT(120)
-----------------------------------------------------------------------------
(* Nothing has happened.                                                    *)
LEMMA InitInv ==
  Init => KInv
PROOF
  <1> SUFFICES ASSUME Init
               PROVE  KInv
    OBVIOUS
  <1>1. <<>> \in Seq(Requests) /\ Len(<<>>) = 0
    OBVIOUS
  <1>2. Unborn \in Kernel
    BY <1>1 DEF Unborn, Kernel
  <1>3. TypeOK
    BY <1>2 DEF Init, TypeOK
  <1>4. \A k \in Kernels : kern[k] = Unborn
    BY DEF Init
  <1>5. /\ Unborn.proc = "none" /\ Unborn.cin = TRUE /\ Unborn.err = FALSE
        /\ Unborn.op = "none" /\ Unborn.queue = <<>> /\ Unborn.inbox = <<>>
        /\ Unborn.run = Nobody /\ Unborn.outbox = <<>>
    BY DEF Unborn
  <1>6. Sane(Unborn)
    BY <1>5 DEF Sane, Exchange, Nothing, Held
  <1>7. Queued /\ OwnAnswer
    BY <1>1, <1>4, <1>5 DEF Queued, OwnAnswer, Init
  <1>8. Awaited
    BY <1>4, <1>5 DEF Awaited, Init
  <1> QED BY <1>3, <1>4, <1>6, <1>7, <1>8, SaneInv

(* Every step keeps the invariant.                                          *)
LEMMA NextInv ==
  KInv /\ [Next]_vars => KInv'
PROOF
  <1> SUFFICES ASSUME KInv, [Next]_vars
               PROVE  KInv'
    OBVIOUS
  <1>1. CASE Client
    BY <1>1, WindowKeeps, CreateKeeps, KillKeeps, ExecKeeps DEF Client
  <1>2. CASE Closing
    BY <1>2, ClosingKeeps, CloseKeeps DEF Closing
  <1>3. ASSUME NEW w \in Windows, Prune(w)
        PROVE  KInv'
    BY <1>3, WindowKeeps
  <1>4. ASSUME NEW k \in Kernels, Io(k)
        PROVE  KInv'
    BY <1>4, DeliverKeeps, SentKeeps, SendFailsKeeps, AnswerKeeps, ReadFailsKeeps,
       ErrEndsKeeps DEF Io
  <1>5. ASSUME NEW k \in Kernels, Child(k) \/ Crash(k)
        PROVE  KInv'
    BY <1>5, BeginKeeps, RespondKeeps, StopsKeeps, ExitKeeps, CrashKeeps DEF Child
  <1>6. CASE UNCHANGED vars
    <2>1. OtherTypes' /\ Awaited'
      BY <1>6, SaneInv DEF vars, OtherTypes, TypeOK, Awaited, Free
    <2> QED BY <1>6, <2>1, Quiet DEF vars
  <1> QED BY <1>1, <1>2, <1>3, <1>4, <1>5, <1>6 DEF Next

(* The inductive invariant: what is with a child is the front request of    *)
(* the Kernel object's queue, and each waiting request is at one place of   *)
(* one queue.                                                               *)
THEOREM Safety == Spec => []KInv
PROOF
  <1>1. Init => KInv
    BY InitInv
  <1>2. KInv /\ [Next]_vars => KInv'
    BY NextInv
  <1> QED BY <1>1, <1>2, PTL DEF Spec

(* Kernel::cout finishes the front handle with what the child wrote: that   *)
(* is the result of the request the handle is of.                           *)
THEOREM AnswersAreOwn == Spec => []OwnAnswer
PROOF
  <1>1. KInv => OwnAnswer
    BY DEF KInv
  <1> QED BY <1>1, Safety, PTL

(* The queue of a running child is never left without an exchange.          *)
THEOREM QueuesMove == Spec => []NotStuck
PROOF
  <1>1. KInv => NotStuck
    BY DEF KInv
  <1> QED BY <1>1, Safety, PTL
-----------------------------------------------------------------------------
(* A handler that leaves finishes only requests that wait.                  *)
LEMMA LeaveFinishes ==
  ASSUME KInv, NEW k \in Kernels, NEW r, NEW f, Leave(k, r, f),
         r.queue = kern[k].queue \/ (kern[k].queue # <<>> /\ r.queue = Tail(kern[k].queue)),
         NEW q \in Requests, req[q] \in Outcomes, f[q] = req[q]
  PROVE  req'[q] = req[q]
PROOF
  <1>1. TypeOK /\ Queued /\ kern[k].queue \in Seq(Requests)
    BY SaneInv DEF TypeOK, Kernel
  <1>2. \A i \in 1 .. Len(kern[k].queue) : kern[k].queue[i] # q
    BY <1>1 DEF Queued, Outcomes
  <1>3. r.queue \in Seq(Requests)
    BY <1>1, TailFacts
  <1>4. \A i \in 1 .. Len(r.queue) : r.queue[i] # q
    <2>1. CASE r.queue = kern[k].queue
      BY <1>2, <2>1
    <2>2. CASE kern[k].queue # <<>> /\ r.queue = Tail(kern[k].queue)
      <3>1. \A i \in 1 .. Len(r.queue) :
              r.queue[i] = kern[k].queue[i + 1] /\ i + 1 \in 1 .. Len(kern[k].queue)
        BY <1>1, <2>2, TailFacts
      <3> QED BY <1>2, <3>1
    <2> QED BY <2>1, <2>2
  <1>5. q \notin Range(r.queue)
    BY ONLY <1>3, <1>4, RangeFacts
  <1> QED BY <1>5 DEF Leave

(* The front request waits.                                                 *)
LEMMA FrontWaits ==
  ASSUME KInv, NEW k \in Kernels, kern[k].queue # <<>>
  PROVE  /\ Head(kern[k].queue) \in Requests
         /\ req[Head(kern[k].queue)] = "waiting"
PROOF
  <1>1. Queued /\ kern[k].queue \in Seq(Requests)
    BY SaneInv DEF TypeOK, Kernel
  <1>2. /\ Head(kern[k].queue) = kern[k].queue[1] /\ 1 \in 1 .. Len(kern[k].queue)
        /\ Head(kern[k].queue) \in Requests
    BY <1>1, TailFacts
  <1> QED BY <1>1, <1>2 DEF Queued

(* What has become of a request does not change, by whichever handler,      *)
(* destructor or client: no handle is finished twice.                       *)
THEOREM HandlesFinishOnce == Spec => FinishedOnce
PROOF
  <1>1. ASSUME KInv, Next, NEW q \in Requests, req[q] \in Outcomes
        PROVE  req'[q] = req[q] /\ reply'[q] = reply[q]
    <2>1. TypeOK
      BY <1>1 DEF KInv
    <2>2. CASE Client
      BY <1>1, <2>1, <2>2 DEF Client, OpenWindow, LoseWindow, CreateKernel, KillKernel, Exec,
         Outcomes, TypeOK
    <2>3. CASE Closing
      BY <2>3 DEF Closing, Reap, Closed, CloseKernel
    <2>4. ASSUME NEW w \in Windows, Prune(w)
          PROVE  req'[q] = req[q] /\ reply'[q] = reply[q]
      BY <2>4 DEF Prune
    <2>5. ASSUME NEW k \in Kernels, Io(k)
          PROVE  req'[q] = req[q] /\ reply'[q] = reply[q]
      <3>1. kern[k] \in Kernel /\ Sane(kern[k])
        BY <1>1, KernelFacts
      <3>2. CASE Deliver(k) \/ Sent(k)
        BY <3>2 DEF Deliver, Sent
      <3>3. CASE SendFails(k)
        <4>1. [kern[k] EXCEPT !.op = "none"].queue = kern[k].queue
          BY <3>1 DEF Kernel
        <4>2. Leave(k, [kern[k] EXCEPT !.op = "none"], req) /\ reply' = reply
          BY <3>3 DEF SendFails
        <4> QED BY <1>1, <4>1, <4>2, LeaveFinishes
      <3>4. CASE ErrEnds(k)
        <4>1. [kern[k] EXCEPT !.err = FALSE].queue = kern[k].queue
          BY <3>1 DEF Kernel
        <4>2. Leave(k, [kern[k] EXCEPT !.err = FALSE], req) /\ reply' = reply
          BY <3>4 DEF ErrEnds
        <4> QED BY <1>1, <4>1, <4>2, LeaveFinishes
      <3>5. CASE Answer(k) \/ ReadFails(k)
        <4>1. kern[k].queue # <<>>
          BY <3>1, <3>5 DEF Answer, ReadFails, Sane, Exchange
        <4>2. /\ Head(kern[k].queue) \in Requests /\ q # Head(kern[k].queue)
          BY <1>1, <4>1, FrontWaits DEF Outcomes
        <4>3. CASE Answer(k)
          <5> DEFINE r == [Popped(k) EXCEPT !.outbox = Tail(@)]
                     f == [req EXCEPT ![Head(kern[k].queue)] = "answered"]
          <5>1. r.queue = Tail(kern[k].queue)
            BY <3>1 DEF Popped, Kernel
          <5>2. f[q] = req[q]
            BY <2>1, <4>2 DEF TypeOK
          <5>3. /\ Leave(k, r, f)
                /\ reply' = [reply EXCEPT ![Head(kern[k].queue)] = Head(kern[k].outbox)]
            BY <4>3 DEF Answer
          <5>4. reply'[q] = reply[q]
            BY <2>1, <4>2, <5>3 DEF TypeOK
          <5> HIDE DEF r, f
          <5> QED BY <1>1, <4>1, <5>1, <5>2, <5>3, <5>4, LeaveFinishes
        <4>4. CASE ReadFails(k)
          <5> DEFINE f == [req EXCEPT ![Head(kern[k].queue)] = "empty"]
          <5>1. Popped(k).queue = Tail(kern[k].queue)
            BY <3>1 DEF Popped, Kernel
          <5>2. f[q] = req[q]
            BY <2>1, <4>2 DEF TypeOK
          <5>3. Leave(k, Popped(k), f) /\ reply' = reply
            BY <4>4 DEF ReadFails
          <5> HIDE DEF f
          <5> QED BY <1>1, <4>1, <5>1, <5>2, <5>3, LeaveFinishes
        <4> QED BY <3>5, <4>3, <4>4
      <3> QED BY <2>5, <3>2, <3>3, <3>4, <3>5 DEF Io
    <2>6. ASSUME NEW k \in Kernels, Child(k) \/ Crash(k)
          PROVE  req'[q] = req[q] /\ reply'[q] = reply[q]
      BY <2>6 DEF Child, Begin, Respond, Stops, Exit, Crash
    <2> QED BY <1>1, <2>2, <2>3, <2>4, <2>5, <2>6 DEF Next
  <1>2. KInv /\ [Next]_vars =>
          [\A r \in Requests : req[r] \in Outcomes => req'[r] = req[r] /\ reply'[r] = reply[r]]_vars
    BY <1>1
  <1>3. QED
    BY <1>2, Safety, PTL DEF Spec, FinishedOnce
-----------------------------------------------------------------------------
(* What KernelService sees of Kernels.                                      *)
Lives == [k \in Kernels |-> Life(kern[k])]
Lines == [k \in Kernels |-> kern[k].queue]

Fates == {"new", "waiting"} \cup Outcomes

(* A step that leaves a kernel's queue and keeps its object, or not, is a   *)
(* stutter.                                                                 *)
Unseen == UNCHANGED <<Lives, Lines, req, reply>>

(* A step that changes one kernel, as it is seen.                           *)
LEMMA SeenOf ==
  ASSUME TypeOK, NEW k \in Kernels, NEW r, kern' = [kern EXCEPT ![k] = r]
  PROVE  /\ Lives' = [Lives EXCEPT ![k] = Life(r)]
         /\ Lines' = [Lines EXCEPT ![k] = r.queue]
  BY DEF Lives, Lines, TypeOK

(* A step that shows nothing of what it does to a kernel.                   *)
LEMMA UnseenOf ==
  ASSUME TypeOK, NEW k \in Kernels, NEW r, kern' = [kern EXCEPT ![k] = r],
         Life(r) = Life(kern[k]), r.queue = kern[k].queue, UNCHANGED <<req, reply>>
  PROVE  Unseen
  BY SeenOf DEF Unseen, Lives, Lines

(* The kernel serves on with the rest of its line; or it is gone, and the   *)
(* rest is closed.                                                          *)
Stays(k, rest, f) ==
  /\ UNCHANGED Lives
  /\ Lines' = [Lines EXCEPT ![k] = rest]
  /\ req' = f

Gone(k, rest, f) ==
  /\ Lives' = [Lives EXCEPT ![k] = "gone"]
  /\ Lines' = [Lines EXCEPT ![k] = <<>>]
  /\ req' = [q \in Requests |-> IF q \in Range(rest) THEN "closed" ELSE f[q]]

(* What follows for the service, when there is nothing to finish, or the    *)
(* front has an outcome.                                                    *)
LEMMA EndSeen ==
  ASSUME NEW k \in Kernels, Lives[k] = "serving",
         NEW rest, rest = Lines[k], NEW f, f = req, Gone(k, rest, f), reply' = reply
  PROVE  Service!End(k)
PROOF
  <1>1. Service!Range(rest) = Range(rest)
    BY DEF Service!Range, Range
  <1>2. req' = [q \in Requests |-> IF q \in Service!Range(rest) THEN "closed" ELSE f[q]]
    BY <1>1 DEF Gone
  <1>3. req' = [q \in Requests |-> IF q \in Service!Range(Lines[k]) THEN "closed" ELSE req[q]]
    BY <1>2
  <1> QED BY <1>3 DEF Service!End, Service!Goes, Gone, Lives, Lines

LEMMA FinishSeen ==
  ASSUME NEW k \in Kernels, NEW front, front = Head(Lines[k]), Lines[k] # <<>>,
         NEW rest, rest = Tail(Lines[k]), NEW how \in {"answered", "empty"},
         NEW f, f = [req EXCEPT ![front] = how], Stays(k, rest, f) \/ Gone(k, rest, f),
         reply' = IF how = "answered" THEN [reply EXCEPT ![front] = front] ELSE reply
  PROVE  Service!Finish(k)
PROOF
  <1>1. Service!Range(rest) = Range(rest)
    BY DEF Service!Range, Range
  <1>2. Gone(k, rest, f) =>
          req' = [q \in Requests |-> IF q \in Service!Range(rest) THEN "closed" ELSE f[q]]
    BY <1>1 DEF Gone
  <1>3. Gone(k, rest, f) =>
          req' = [q \in Requests |->
                   IF q \in Service!Range(Tail(Lines[k])) THEN "closed"
                   ELSE [req EXCEPT ![Head(Lines[k])] = how][q]]
    BY <1>2
  <1> QED BY <1>3 DEF Service!Finish, Service!Goes, Service!GoesOn, Gone, Stays, Lives, Lines

(* A handler that leaves does one or the other.                             *)
LEMMA LeaveSeen ==
  ASSUME KInv, NEW k \in Kernels, NEW r \in Kernel, NEW f \in [Requests -> Fates],
         Leave(k, r, f), kern[k].proc # "none", r.proc # "none", Held(kern[k])
  PROVE  /\ Lives[k] = "serving"
         /\ Stays(k, r.queue, f) \/ Gone(k, r.queue, f)
PROOF
  <1>1. TypeOK
    BY DEF KInv
  <1>2. Lives[k] = "serving"
    BY DEF Lives, Life
  <1>3. CASE Held(r)
    <2>1. kern' = [kern EXCEPT ![k] = r] /\ req' = [q \in Requests |-> f[q]]
      BY <1>3 DEF Leave
    <2>2. Life(r) = "serving"
      BY <1>3 DEF Life
    <2>3. /\ Lives' = [Lives EXCEPT ![k] = "serving"]
          /\ Lines' = [Lines EXCEPT ![k] = r.queue]
      BY <1>1, <2>1, <2>2, SeenOf
    <2>4. Lives' = Lives
      BY <1>2, <2>3 DEF Lives
    <2>5. req' = f
      BY <2>1
    <2> QED BY <1>2, <2>3, <2>4, <2>5 DEF Stays
  <1>4. CASE ~Held(r)
    <2> DEFINE s == [r EXCEPT !.queue = <<>>]
    <2>1. kern' = [kern EXCEPT ![k] = s]
      BY <1>4 DEF Leave
    <2>2. s.queue = <<>> /\ s.proc # "none" /\ ~Held(s)
      BY <1>4 DEF Kernel, Held
    <2>3. Life(s) = "gone"
      BY <2>2 DEF Life
    <2>4. req' = [q \in Requests |-> IF q \in Range(r.queue) THEN "closed" ELSE f[q]]
      BY <1>4 DEF Leave
    <2> HIDE DEF s
    <2>5. /\ Lives' = [Lives EXCEPT ![k] = "gone"]
          /\ Lines' = [Lines EXCEPT ![k] = <<>>]
      BY <1>1, <2>1, <2>2, <2>3, SeenOf
    <2> QED BY <1>2, <2>4, <2>5 DEF Gone
  <1> QED BY <1>3, <1>4

(* One that finishes nothing.                                               *)
LEMMA LeaveServes ==
  ASSUME KInv, NEW k \in Kernels, NEW r \in Kernel, NEW f, f = req, Leave(k, r, f),
         Held(kern[k]), r.queue = kern[k].queue, r.proc = kern[k].proc, reply' = reply
  PROVE  Service!End(k) \/ Unseen
PROOF
  <1>1. TypeOK /\ Sane(kern[k])
    BY KernelFacts
  <1>2. kern[k].proc # "none" /\ f \in [Requests -> Fates]
    BY <1>1 DEF TypeOK, Fates, Sane
  <1>3. Lives[k] = "serving" /\ (Stays(k, r.queue, f) \/ Gone(k, r.queue, f))
    BY <1>2, LeaveSeen
  <1>4. Lines[k] = r.queue /\ [Lines EXCEPT ![k] = r.queue] = Lines
    BY DEF Lines
  <1>5. CASE Stays(k, r.queue, f)
    BY <1>4, <1>5 DEF Unseen, Stays
  <1>6. CASE Gone(k, r.queue, f)
    BY <1>3, <1>4, <1>6, EndSeen
  <1> QED BY <1>3, <1>5, <1>6

LEMMA InitServes == Init => Service!Init
  BY DEF Init, Service!Init, Life, Unborn, Held

-----------------------------------------------------------------------------
(* Each step, as a client sees it.                                          *)
LEMMA ExecServes ==
  ASSUME KInv, NEW r \in Requests, NEW w \in Windows, NEW k \in Kernels, Exec(r, w, k)
  PROVE  Service!Take(r, k) \/ Service!Refuse(r)
PROOF
  <1>1. TypeOK /\ kern[k] \in Kernel /\ Sane(kern[k])
    BY KernelFacts
  <1>2. CASE Found(w, k) /\ Live(k)
    <2>1. /\ kern' = [kern EXCEPT ![k] = Posted(k, r)]
          /\ req' = [req EXCEPT ![r] = "waiting"] /\ reply' = reply /\ req[r] = "new"
      BY <1>2 DEF Exec
    <2>2. Held(kern[k]) /\ kern[k].proc # "none"
      BY <1>2 DEF Found, Live
    <2>3. /\ Posted(k, r).queue = Append(kern[k].queue, r)
          /\ Posted(k, r).proc = kern[k].proc /\ Held(Posted(k, r))
      BY <1>1, <2>2 DEF Posted, Kernel, Held
    <2>4. Life(kern[k]) = "serving" /\ Life(Posted(k, r)) = "serving"
      BY <2>2, <2>3 DEF Life
    <2> DEFINE s == Posted(k, r)
    <2> HIDE DEF s
    <2>a. /\ Lives' = [Lives EXCEPT ![k] = Life(s)] /\ Lines' = [Lines EXCEPT ![k] = s.queue]
      <3>1. kern' = [kern EXCEPT ![k] = s]
        BY <2>1 DEF s
      <3> QED BY <1>1, <3>1, SeenOf
    <2>5. /\ Lives' = [Lives EXCEPT ![k] = "serving"]
          /\ Lines' = [Lines EXCEPT ![k] = Append(kern[k].queue, r)]
      BY <2>3, <2>4, <2>a DEF s
    <2>6. Lives' = Lives /\ Lives[k] = "serving"
      BY <2>4, <2>5 DEF Lives
    <2>7. Lines' = [Lines EXCEPT ![k] = Append(@, r)]
      BY <2>5 DEF Lines
    <2>8. Service!Take(r, k)
      BY <2>1, <2>6, <2>7 DEF Service!Take, Lives, Lines
    <2> QED BY <2>8
  <1>3. CASE ~(Found(w, k) /\ Live(k))
    <2>1. kern' = kern /\ reply' = reply /\ req[r] = "new"
      BY <1>3 DEF Exec
    <2>2. \E how \in {"closed", "server"} : req' = [req EXCEPT ![r] = how]
      BY <1>3 DEF Exec
    <2> QED BY <2>1, <2>2 DEF Service!Refuse
  <1> QED BY <1>2, <1>3

LEMMA SendFailsServes ==
  ASSUME KInv, NEW k \in Kernels, SendFails(k)
  PROVE  Service!End(k) \/ Unseen
PROOF
  <1> DEFINE r == [kern[k] EXCEPT !.op = "none"]
  <1>1. kern[k] \in Kernel /\ kern[k].op = "write"
    BY KernelFacts DEF SendFails
  <1>2. /\ r \in Kernel /\ r.queue = kern[k].queue /\ r.proc = kern[k].proc
        /\ Held(kern[k])
    BY <1>1 DEF Kernel, Held
  <1>3. Leave(k, r, req) /\ reply' = reply
    BY DEF SendFails
  <1>4. PICK f : f = req
    OBVIOUS
  <1> HIDE DEF r
  <1>5. PICK s \in Kernel : s = r
    BY <1>2
  <1>6. Leave(k, s, f)
    BY <1>3, <1>4, <1>5 DEF Leave
  <1> QED BY <1>2, <1>3, <1>4, <1>5, <1>6, LeaveServes

LEMMA ErrEndsServes ==
  ASSUME KInv, NEW k \in Kernels, ErrEnds(k)
  PROVE  Service!End(k) \/ Unseen
PROOF
  <1> DEFINE r == [kern[k] EXCEPT !.err = FALSE]
  <1>1. kern[k] \in Kernel /\ kern[k].err
    BY KernelFacts DEF ErrEnds
  <1>2. /\ r \in Kernel /\ r.queue = kern[k].queue /\ r.proc = kern[k].proc
        /\ Held(kern[k])
    BY <1>1 DEF Kernel, Held
  <1>3. Leave(k, r, req) /\ reply' = reply
    BY DEF ErrEnds
  <1>4. PICK f : f = req
    OBVIOUS
  <1> HIDE DEF r
  <1>5. PICK s \in Kernel : s = r
    BY <1>2
  <1>6. Leave(k, s, f)
    BY <1>3, <1>4, <1>5 DEF Leave
  <1> QED BY <1>2, <1>3, <1>4, <1>5, <1>6, LeaveServes

(* One that finishes the front request.                                     *)
LEMMA FrontServes ==
  ASSUME KInv, NEW k \in Kernels, NEW r \in Kernel, NEW how \in {"answered", "empty"},
         NEW front, front = Head(kern[k].queue), NEW f, f = [req EXCEPT ![front] = how],
         Leave(k, r, f), kern[k].op # "none", kern[k].queue # <<>>,
         r.queue = Tail(kern[k].queue), r.proc = kern[k].proc,
         reply' = IF how = "answered" THEN [reply EXCEPT ![front] = front] ELSE reply
  PROVE  Service!Finish(k)
PROOF
  <1>1. TypeOK /\ Sane(kern[k])
    BY KernelFacts
  <1>2. Held(kern[k]) /\ kern[k].proc # "none" /\ r.proc # "none"
    BY <1>1 DEF Held, Sane
  <1>3. f \in [Requests -> Fates]
    BY <1>1 DEF TypeOK, Fates, Outcomes
  <1>4. Lines[k] = kern[k].queue
    BY DEF Lines
  <1>5. Stays(k, r.queue, f) \/ Gone(k, r.queue, f)
    BY <1>2, <1>3, LeaveSeen
  <1> QED BY <1>4, <1>5, FinishSeen

LEMMA AnswerServes ==
  ASSUME KInv, NEW k \in Kernels, Answer(k)
  PROVE  Service!Finish(k)
PROOF
  <1> DEFINE r == [Popped(k) EXCEPT !.outbox = Tail(@)]
             front == Head(kern[k].queue)
  <1>1. TypeOK /\ kern[k] \in Kernel /\ Sane(kern[k])
    BY KernelFacts
  <1>2. /\ kern[k].op = "read" /\ kern[k].queue # <<>>
        /\ kern[k].outbox # <<>> /\ Front(kern[k])
    BY <1>1 DEF Answer, Sane, Exchange
  <1>3. kern[k].outbox = <<front>>
    BY <1>2 DEF Front, Nothing
  <1>4. Head(kern[k].outbox) = front /\ Tail(kern[k].outbox) = <<>>
    BY <1>3
  <1>5. Tail(kern[k].queue) \in Seq(Requests)
    BY <1>1, <1>2, TailFacts DEF Kernel
  <1>6. r = [Popped(k) EXCEPT !.outbox = <<>>]
    <2>1. Popped(k).outbox = kern[k].outbox
      BY <1>1 DEF Popped, Kernel
    <2> QED BY <1>4, <2>1
  <1>7. r \in Kernel /\ r.queue = Tail(kern[k].queue) /\ r.proc = kern[k].proc
    <2>1. /\ Popped(k) \in Kernel /\ Popped(k).queue = Tail(kern[k].queue)
          /\ Popped(k).proc = kern[k].proc
      BY <1>1, <1>5 DEF Popped, Kernel
    <2>2. <<>> \in Seq(Requests)
      OBVIOUS
    <2> QED BY <1>6, <2>1, <2>2 DEF Kernel
  <1>8. /\ Leave(k, r, [req EXCEPT ![front] = "answered"])
        /\ reply' = [reply EXCEPT ![front] = front]
    BY <1>4 DEF Answer
  <1> HIDE DEF r
  <1> QED BY <1>2, <1>7, <1>8, FrontServes

LEMMA ReadFailsServes ==
  ASSUME KInv, NEW k \in Kernels, ReadFails(k)
  PROVE  Service!Finish(k)
PROOF
  <1>1. TypeOK /\ kern[k] \in Kernel /\ Sane(kern[k])
    BY KernelFacts
  <1>2. kern[k].op = "read" /\ kern[k].queue # <<>>
    BY <1>1 DEF ReadFails, Sane, Exchange
  <1>3. Tail(kern[k].queue) \in Seq(Requests)
    BY <1>1, <1>2, TailFacts DEF Kernel
  <1>4. /\ Popped(k) \in Kernel /\ Popped(k).queue = Tail(kern[k].queue)
        /\ Popped(k).proc = kern[k].proc
    BY <1>1, <1>3 DEF Popped, Kernel
  <1>5. Leave(k, Popped(k), [req EXCEPT ![Head(kern[k].queue)] = "empty"]) /\ reply' = reply
    BY DEF ReadFails
  <1> QED BY <1>2, <1>4, <1>5, FrontServes

LEMMA StartServes ==
  ASSUME KInv, NEW w \in Windows, NEW k \in Kernels, CreateKernel(w, k)
  PROVE  Service!Start(k)
PROOF
  <1> DEFINE r == [kern[k] EXCEPT !.proc = "running", !.err = TRUE]
  <1>1. TypeOK /\ kern[k] \in Kernel /\ kern[k].proc = "none"
    BY KernelFacts DEF CreateKernel
  <1>2. kern' = [kern EXCEPT ![k] = r]
    BY <1>1 DEF CreateKernel, TypeOK
  <1>3. r.queue = kern[k].queue /\ Life(r) = "serving" /\ Life(kern[k]) = "unborn"
    BY <1>1 DEF Kernel, Life, Held
  <1> HIDE DEF r
  <1>a. /\ Lives' = [Lives EXCEPT ![k] = Life(r)]
        /\ Lines' = [Lines EXCEPT ![k] = r.queue]
    BY <1>1, <1>2, SeenOf
  <1>4. /\ Lives' = [Lives EXCEPT ![k] = "serving"]
        /\ Lines' = [Lines EXCEPT ![k] = kern[k].queue]
    BY <1>3, <1>a
  <1>5. Lines' = Lines /\ Lives[k] = "unborn"
    BY <1>3, <1>4 DEF Lines, Lives
  <1> QED BY <1>4, <1>5 DEF Service!Start, CreateKernel, Lines, Lives

(* What a child does is not seen, nor what is written to it.                *)
LEMMA QuietServes ==
  ASSUME KInv, NEW k \in Kernels, NEW r,
         kern' = [kern EXCEPT ![k] = r] , UNCHANGED <<req, reply>>,
         r.queue = kern[k].queue, r.err = kern[k].err,
         r.op = kern[k].op \/ {r.op, kern[k].op} \subseteq {"write", "sent", "read"},
         r.proc = "none" <=> kern[k].proc = "none"
  PROVE  Unseen
PROOF
  <1>1. TypeOK
    BY DEF KInv
  <1>2. Held(r) <=> Held(kern[k])
    BY DEF Held
  <1>3. Life(r) = Life(kern[k])
    BY <1>2 DEF Life
  <1> QED BY <1>1, <1>3, UnseenOf

LEMMA PipesServe ==
  ASSUME KInv, NEW k \in Kernels, Deliver(k) \/ Sent(k) \/ Child(k) \/ Crash(k)
  PROVE  Unseen
PROOF
  <1>1. TypeOK /\ kern[k] \in Kernel
    BY KernelFacts
  <1>2. CASE Deliver(k)
    <2> DEFINE r == [kern[k] EXCEPT !.op = "sent", !.inbox = Append(@, Head(kern[k].queue))]
    <2>1. kern' = [kern EXCEPT ![k] = r] /\ UNCHANGED <<req, reply>>
      BY <1>1, <1>2 DEF Deliver, TypeOK
    <2>2. /\ r.queue = kern[k].queue /\ r.err = kern[k].err /\ r.proc = kern[k].proc
          /\ {r.op, kern[k].op} \subseteq {"write", "sent", "read"}
      BY <1>1, <1>2 DEF Deliver, Kernel
    <2> HIDE DEF r
    <2> QED BY <2>1, <2>2, QuietServes
  <1>3. CASE Sent(k)
    <2> DEFINE r == [kern[k] EXCEPT !.op = "read"]
    <2>1. kern' = [kern EXCEPT ![k] = r] /\ UNCHANGED <<req, reply>>
      BY <1>1, <1>3 DEF Sent, TypeOK
    <2>2. /\ r.queue = kern[k].queue /\ r.err = kern[k].err /\ r.proc = kern[k].proc
          /\ {r.op, kern[k].op} \subseteq {"write", "sent", "read"}
      BY <1>1, <1>3 DEF Sent, Kernel
    <2> HIDE DEF r
    <2> QED BY <2>1, <2>2, QuietServes
  <1>4. CASE Begin(k)
    <2> DEFINE r == [kern[k] EXCEPT !.run = Head(kern[k].inbox), !.inbox = Tail(@)]
    <2>1. kern' = [kern EXCEPT ![k] = r] /\ UNCHANGED <<req, reply>>
      BY <1>1, <1>4 DEF Begin, TypeOK
    <2>2. /\ r.queue = kern[k].queue /\ r.err = kern[k].err /\ r.proc = kern[k].proc
          /\ r.op = kern[k].op
      BY <1>1 DEF Kernel
    <2> HIDE DEF r
    <2> QED BY <2>1, <2>2, QuietServes
  <1>5. CASE Respond(k)
    <2> DEFINE r == [kern[k] EXCEPT !.outbox = Append(@, kern[k].run), !.run = Nobody]
    <2>1. kern' = [kern EXCEPT ![k] = r] /\ UNCHANGED <<req, reply>>
      BY <1>1, <1>5 DEF Respond, TypeOK
    <2>2. /\ r.queue = kern[k].queue /\ r.err = kern[k].err /\ r.proc = kern[k].proc
          /\ r.op = kern[k].op
      BY <1>1 DEF Kernel
    <2> HIDE DEF r
    <2> QED BY <2>1, <2>2, QuietServes
  <1>6. CASE Stops(k)
    <2> DEFINE r == [kern[k] EXCEPT !.proc = "dying"]
    <2>1. kern' = [kern EXCEPT ![k] = r] /\ UNCHANGED <<req, reply>>
      BY <1>1, <1>6 DEF Stops, TypeOK
    <2>2. /\ r.queue = kern[k].queue /\ r.err = kern[k].err /\ r.op = kern[k].op
          /\ r.proc = "dying" /\ kern[k].proc = "running"
      BY <1>1, <1>6 DEF Stops, Kernel
    <2> HIDE DEF r
    <2> QED BY <2>1, <2>2, QuietServes
  <1>7. CASE Exit(k)
    <2> DEFINE r == [kern[k] EXCEPT !.proc = "exited"]
    <2>1. kern' = [kern EXCEPT ![k] = r] /\ UNCHANGED <<req, reply>>
      BY <1>1, <1>7 DEF Exit, TypeOK
    <2>2. /\ r.queue = kern[k].queue /\ r.err = kern[k].err /\ r.op = kern[k].op
          /\ r.proc = "exited" /\ kern[k].proc = "dying"
      BY <1>1, <1>7 DEF Exit, Kernel
    <2> HIDE DEF r
    <2> QED BY <2>1, <2>2, QuietServes
  <1>8. CASE Crash(k)
    <2> DEFINE r == [kern[k] EXCEPT !.proc = "dying", !.inbox = <<>>, !.run = Nobody]
    <2>1. kern' = [kern EXCEPT ![k] = r] /\ UNCHANGED <<req, reply>>
      BY <1>1, <1>8 DEF Crash, TypeOK
    <2>2. /\ r.queue = kern[k].queue /\ r.err = kern[k].err /\ r.op = kern[k].op
          /\ r.proc = "dying" /\ kern[k].proc = "running"
      BY <1>1, <1>8 DEF Crash, Kernel
    <2> HIDE DEF r
    <2> QED BY <2>1, <2>2, QuietServes
  <1> QED BY <1>2, <1>3, <1>4, <1>5, <1>6, <1>7, <1>8 DEF Child

LEMMA WindowsServe ==
  ASSUME KInv, NEW k \in Kernels,
         \/ \E w \in Windows : OpenWindow(w) \/ LoseWindow(w) \/ Prune(w) \/ KillKernel(w, k)
         \/ CloseKernel(k) \/ Reap \/ Closed
  PROVE  Unseen
PROOF
  <1>1. TypeOK /\ kern[k] \in Kernel /\ Sane(kern[k])
    BY KernelFacts
  <1>2. CASE kern' = kern /\ UNCHANGED <<req, reply>>
    BY <1>2 DEF Unseen, Lives, Lines
  <1>3. CASE \E w \in Windows : KillKernel(w, k) /\ Held(kern[k])
    <2>1. kern' = [kern EXCEPT ![k] = Terminated(kern[k])] /\ UNCHANGED <<req, reply>>
      BY <1>1, <1>3 DEF KillKernel, TypeOK
    <2>2. /\ Terminated(kern[k]).queue = kern[k].queue /\ Terminated(kern[k]).err = kern[k].err
          /\ Terminated(kern[k]).op = kern[k].op /\ Terminated(kern[k]).proc = "exited"
          /\ kern[k].proc # "none"
      BY <1>1, <1>3 DEF Terminated, Kernel, Sane
    <2> QED BY <2>1, <2>2, QuietServes
  <1>4. CASE CloseKernel(k) /\ Held(kern[k])
    <2> DEFINE r == [kern[k] EXCEPT !.cin = FALSE]
    <2>1. kern' = [kern EXCEPT ![k] = r] /\ UNCHANGED <<req, reply>>
      BY <1>1, <1>4 DEF CloseKernel, TypeOK
    <2>2. /\ r.queue = kern[k].queue /\ r.err = kern[k].err /\ r.op = kern[k].op
          /\ r.proc = kern[k].proc
      BY <1>1 DEF Kernel
    <2> HIDE DEF r
    <2> QED BY <2>1, <2>2, QuietServes
  <1>5. CASE \E w \in Windows : KillKernel(w, k) /\ ~Held(kern[k])
    <2>1. kern' = [kern EXCEPT ![k] = kern[k]] /\ UNCHANGED <<req, reply>>
      BY <1>1, <1>5 DEF KillKernel, TypeOK
    <2>2. kern' = kern
      BY <1>1, <2>1 DEF TypeOK
    <2> QED BY <1>2, <2>1, <2>2
  <1>6. CASE CloseKernel(k) /\ ~Held(kern[k])
    BY <1>2, <1>6 DEF CloseKernel
  <1>7. CASE \/ Reap \/ Closed
             \/ \E w \in Windows : OpenWindow(w) \/ LoseWindow(w) \/ Prune(w)
    BY <1>2, <1>7 DEF Reap, Closed, OpenWindow, LoseWindow, Prune
  <1> QED BY <1>3, <1>4, <1>5, <1>6, <1>7

-----------------------------------------------------------------------------
(* Kernels implements KernelService: what clients see of windows, kernels,  *)
(* pipes and processes is a queue for each kernel that is finished in its   *)
(* order, each request once and with its own result.                        *)
LEMMA NextServes ==
  ASSUME KInv, [Next]_vars
  PROVE  Service!Next \/ Unseen
PROOF
  <1>1. ASSUME NEW k \in Kernels, Io(k) \/ Child(k) \/ Crash(k)
        PROVE  Service!Next \/ Unseen
    BY <1>1, SendFailsServes, ErrEndsServes, AnswerServes, ReadFailsServes, PipesServe
    DEF Io, Service!Next
  <1>2. ASSUME NEW w \in Windows, NEW k \in Kernels, CreateKernel(w, k)
        PROVE  Service!Next
    BY <1>2, StartServes DEF Service!Next
  <1>3. ASSUME NEW r \in Requests, NEW w \in Windows, NEW k \in Kernels, Exec(r, w, k)
        PROVE  Service!Next
    BY <1>3, ExecServes DEF Service!Next
  <1>4. ASSUME NEW w \in Windows, NEW k \in Kernels, KillKernel(w, k) \/ CloseKernel(k)
        PROVE  Unseen
    BY <1>4, WindowsServe
  <1>5. ASSUME NEW k \in Kernels, CloseKernel(k)
        PROVE  Unseen
    BY <1>5, WindowsServe
  <1>6. CASE \/ \E w \in Windows : OpenWindow(w) \/ LoseWindow(w) \/ Prune(w)
             \/ Reap \/ Closed \/ UNCHANGED vars
    <2>1. kern' = kern /\ UNCHANGED <<req, reply>>
      BY <1>6 DEF OpenWindow, LoseWindow, Prune, Reap, Closed, vars
    <2> QED BY <2>1 DEF Unseen, Lives, Lines
  <1> QED BY <1>1, <1>2, <1>3, <1>4, <1>5, <1>6 DEF Next, Client, Closing

THEOREM KernelsServe == Spec => ServiceSpec
PROOF
  <1>1. KInv /\ [Next]_vars => [Service!Next]_(Service!vars)
    BY NextServes DEF Unseen, Service!vars, Lives, Lines
  <1> QED BY <1>1, InitServes, Safety, PTL DEF Spec, ServiceSpec, Service!Spec
=============================================================================
