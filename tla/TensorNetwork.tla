---------------------------- MODULE TensorNetwork ----------------------------
(***************************************************************************)
(* QuantumNetworkSimulator: the density matrix of all qubits is one tensor *)
(* network. Every operation appends tensors to it, joins some of their     *)
(* legs with open legs of the network and leaves the others open; for each *)
(* qubit the simulator remembers the leg of its ket and the leg of its bra.*)
(* A contraction replaces the network by one tensor with the same legs.    *)
(*                                                                         *)
(* A network is a record, an operation a function of it. Amplitudes are    *)
(* not in it: which legs are open, and which qubit they belong to, does    *)
(* not depend on them. A leg is a pair of a tensor's id and the index of   *)
(* the leg at that tensor. ExaTN's appendTensor and its output tensor are  *)
(* modelled as this code uses them: the open legs are the dimensions of    *)
(* the output tensor, in the order in which they were opened.              *)
(***************************************************************************)
EXTENDS Naturals, Sequences, FiniteSets, TLC

CONSTANT Qubits   \* names of the qubits

QubitsAssumption == IsFiniteSet(Qubits)

VARIABLES
  net,         \* m_dm with the legs of the qubits
  subcircs,    \* the checkpoints: a sequence of the tensor ids [lo, hi]
  contraction  \* the sequence the last contraction imported, and of how many tensors

networkVars == <<net, subcircs, contraction>>

NoLeg == <<0, 0>>

EmptyNetwork ==
  [ next  |-> 1,                        \* m_dm_id
    open  |-> {},                       \* the open legs
    ket   |-> [q \in Qubits |-> NoLeg], \* m_qubit2tensor
    bra   |-> [q \in Qubits |-> NoLeg], \* m_qubit2tensor_dag
    valid |-> {},                       \* m_qubits_vld
    all   |-> {} ]                      \* m_qubits_all

NoContraction == [sequence |-> <<>>, tensors |-> 0]

NetworkInit ==
  /\ net = EmptyNetwork
  /\ subcircs = <<>>
  /\ contraction = NoContraction

-----------------------------------------------------------------------------
(* The operations of the simulator. qs is a sequence of distinct qubits.   *)

Members(qs) == {qs[i] : i \in DOMAIN qs}

\* The legs of f with the qubits of qs moved to tensor t: qs[i] to its leg L[i].
Moved(f, qs, t, L) ==
  [q \in Members(qs) |-> <<t, L[CHOOSE i \in DOMAIN qs : qs[i] = q]>>] @@ f

\* The legs that qubits of S have in n.
Legs(n, S) == {n.ket[q] : q \in S} \cup {n.bra[q] : q \in S}

\* A tensor appended to the kets of qs and its conjugate to their bras; the legs
\* that are not joined and not listed in L are joined with each other.
OnBothSides(n, qs, L) ==
  LET t == n.next
  IN [n EXCEPT
        !.next = t + 2,
        !.open = (@ \ Legs(n, Members(qs))) \cup {<<s, L[i]>> : s \in {t, t + 1}, i \in DOMAIN qs},
        !.ket = Moved(@, qs, t, L),
        !.bra = Moved(@, qs, t + 1, L)]

\* GenerateQubitsPure: a state vector and its conjugate.
GenerateQubitsPure(n, qs) ==
  LET m == OnBothSides(n, qs, [i \in DOMAIN qs |-> i - 1])
  IN [m EXCEPT !.valid = @ \cup Members(qs), !.all = @ \cup Members(qs)]

\* GenerateQubitsMixed: one tensor, the bras before the kets.
GenerateQubitsMixed(n, qs) ==
  LET t == n.next  k == Len(qs)
  IN [n EXCEPT
        !.next = t + 1,
        !.open = @ \cup ({t} \X (0 .. 2 * k - 1)),
        !.ket = Moved(@, qs, t, [i \in DOMAIN qs |-> k + i - 1]),
        !.bra = Moved(@, qs, t, [i \in DOMAIN qs |-> i - 1]),
        !.valid = @ \cup Members(qs),
        !.all = @ \cup Members(qs)]

\* ApplyGate: the first legs take the qubits, the others are their new ones.
ApplyGate(n, qs) == OnBothSides(n, qs, [i \in DOMAIN qs |-> Len(qs) + i - 1])

\* ApplyOperation: every second leg is a new one, and the last leg, which counts
\* the operators, is joined with that of the conjugate.
ApplyOperation(n, qs) == OnBothSides(n, qs, [i \in DOMAIN qs |-> 2 * i - 1])

\* PartialTrace: an identity joins the ket of each qubit with its bra.
PartialTrace(n, qs) ==
  [n EXCEPT
     !.next = @ + Len(qs),
     !.open = @ \ Legs(n, Members(qs)),
     !.valid = @ \ Members(qs)]

\* The legs that are left open when the valid qubits not in qs are traced, as
\* PeekDM, CalculateFidelity and the probabilities of Measure do in a copy.
Peeked(n, qs) == n.open \ Legs(n, n.valid \ Members(qs))

\* Mutant: the index of the leg at its own tensor.
OwnIndex(n, l) == l[2]

\* The dimension of the output tensor that an open leg is.
Before(l, m) == l[1] < m[1] \/ (l[1] = m[1] /\ l[2] < m[2])
Dimension(n, l) == Cardinality({m \in n.open : Before(m, l)})

\* Contract: one tensor with the open legs of the network; its assertions.
Contractible(n) ==
  /\ Cardinality(n.open) = 2 * Cardinality(n.valid)
  /\ Legs(n, n.valid) = n.open

Contract(n) ==
  [n EXCEPT
     !.next = 2,
     !.open = {1} \X (0 .. Cardinality(n.open) - 1),
     !.ket = [q \in n.valid |-> <<1, Dimension(n, n.ket[q])>>] @@ @,
     !.bra = [q \in n.valid |-> <<1, Dimension(n, n.bra[q])>>] @@ @]

-----------------------------------------------------------------------------
(* The contraction sequences: triples of a result and its two factors.     *)

\* AscendSequence: ids are multiplied from left to right; the results are numbered
\* from d on.
AscendSequence(ids, d) ==
  [k \in 1 .. Len(ids) - 1 |-> <<d + k - 1, IF k = 1 THEN ids[1] ELSE d + k - 2, ids[k + 1]>>]

\* The sequence of Evaluate with "ascend", for tensors 1 .. n.
AscendingContraction(n) ==
  [k \in 1 .. n - 1 |-> IF k < n - 1 THEN AscendSequence([i \in 1 .. n |-> i], n + 1)[k]
                        ELSE <<0, n + k - 1, n>>]

\* Checkpoint: the last subcircuit ends here and another begins.
Ended(subs, id) == [subs EXCEPT ![Len(subs)].hi = id - 1]
Checkpoint(subs, id) ==
  (IF subs = <<>> THEN subs ELSE Ended(subs, id)) \o <<[lo |-> id, hi |-> id]>>

\* Log2.
Log2(n) == CHOOSE k \in 0 .. n : 2 ^ k <= n /\ n < 2 ^ (k + 1)

Ids(subcirc) == [i \in 1 .. subcirc.hi - subcirc.lo + 1 |-> subcirc.lo + i - 1]

Subcircuit == [lo : Nat, hi : Nat]

\* SetChildren and UpdateSequence: subcircuit i of height h is contracted after its
\* children, of which the right one is the subcircuit before it.
UpdateSequence[subs \in Seq(Subcircuit), h \in Nat, i \in Nat, d \in Nat] ==
  IF h = 0 THEN AscendSequence(Ids(subs[i]), d)
  ELSE LET left == UpdateSequence[subs, h - 1, i - 2 ^ h, d]
           right == UpdateSequence[subs, h - 1, i - 1, d + Len(left)]
           last == d + Len(left) + Len(right)
       IN left \o right
          \o AscendSequence(<<d + Len(left) - 1, last - 1>> \o Ids(subs[i]), last)

\* Mutant: the last subcircuit is not ended before the contraction.
UnendedContraction(subs, id) ==
  LET rest == AscendSequence([i \in 1 .. subs[1].lo - 1 |-> i], id)
      tree == UpdateSequence[subs, Log2(Len(subs)), Len(subs), id + Len(rest)]
      last == id + Len(rest) + Len(tree)
  IN rest \o tree \o <<<<0, id + Len(rest) - 1, last - 1>>>>

\* AssignDistillSequence: what precedes the first checkpoint, the tree of the
\* subcircuits, and both together.
DistillContraction(subs, id) ==
  LET ended == Ended(subs, id)
      rest == AscendSequence([i \in 1 .. subs[1].lo - 1 |-> i], id)
      tree == UpdateSequence[ended, Log2(Len(subs)), Len(subs), id + Len(rest)]
      last == id + Len(rest) + Len(tree)
  IN rest \o tree \o <<<<0, id + Len(rest) - 1, last - 1>>>>

\* Evaluate of the network with an optimizer; the other optimizers, and a network
\* of fewer than three tensors, leave the sequence to ExaTN.
Evaluated(optimizer) ==
  LET tensors == net.next - 1
  IN /\ contraction' =
          [ tensors |-> tensors,
            sequence |-> CASE optimizer = "ascend" /\ tensors > 2 -> AscendingContraction(tensors)
                           [] optimizer = "distill" /\ tensors > 2 ->
                                DistillContraction(subcircs, net.next)
                           [] OTHER -> <<>> ]
     /\ subcircs' = IF optimizer = "distill" /\ tensors > 2 THEN <<>> ELSE subcircs

-----------------------------------------------------------------------------
(* Properties.                                                             *)

\* The open legs of the network are a ket and a bra for every valid qubit: nothing
\* else is open, no leg is shared and none is missing. Contract's assertions, the
\* size of every density matrix and the scalar of Measure rest on it.
LegsAgree ==
  /\ net.open = Legs(net, net.valid)
  /\ \A p, q \in net.valid :
       /\ net.ket[p] # net.bra[q]
       /\ p # q => net.ket[p] # net.ket[q] /\ net.bra[p] # net.bra[q]

\* An imported sequence is one that ExaTN can evaluate: every tensor and every
\* result is multiplied exactly once, each result is a new one that exists before
\* it is used, and the last one is the output tensor 0.
SequenceContractsAll ==
  LET s == contraction.sequence
      tensors == 1 .. contraction.tensors
      results(k) == {s[j][1] : j \in 1 .. k}
  IN s # <<>> =>
       /\ s[Len(s)][1] = 0
       /\ Len(s) = contraction.tensors - 1
       /\ \A k \in DOMAIN s :
            /\ s[k][1] \notin tensors \cup results(k - 1)
            /\ s[k][2] # s[k][3]
            /\ {s[k][2], s[k][3]} \subseteq (tensors \cup results(k - 1)) \ {0}
            /\ \A j \in 1 .. k - 1 : {s[j][2], s[j][3]} \cap {s[k][2], s[k][3]} = {}
=============================================================================
