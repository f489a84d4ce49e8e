----------------------------- MODULE FeldmanVSS -----------------------------
(***************************************************************************)
(* packages/crypto: the threshold key of a tender and the envelope of a    *)
(* bid (babyjub.ts, vss.ts, dleq.ts, elgamal.ts, sealedbid.ts).            *)
(*                                                                         *)
(* The curve's group is the product of the prime-order subgroup and one of *)
(* order COFACTOR.  A point known to be in the subgroup (the committee's   *)
(* key, which is dealt by mulBase, and ephemeral points, which are checked *)
(* for it) is written as its discrete logarithm: mulBase(k) is k and       *)
(* mulPoint(P, k) is Mul(P, k).  Any other point of the curve, such as one *)
(* a member sends as its share, is a pair.  Hashing is injective.          *)
(***************************************************************************)
EXTENDS Integers, Sequences, FiniteSets

CONSTANTS
    SUB_ORDER,              \* a prime
    COFACTOR,               \* the curve has COFACTOR * SUB_ORDER points
    COMMITTEE_SIZE,
    COMMITTEE_THRESHOLD

ASSUME VSSAssumption ==
    /\ SUB_ORDER \in Nat
    /\ \A k \in 2 .. SUB_ORDER - 1 : SUB_ORDER % k # 0
    /\ COFACTOR \in Nat \ {0}
    /\ COMMITTEE_SIZE \in 1 .. SUB_ORDER - 1
    /\ COMMITTEE_THRESHOLD \in 2 .. COMMITTEE_SIZE

Scalars == 1 .. SUB_ORDER - 1          \* what randomScalar draws from
CommitteeIndices == 1 .. COMMITTEE_SIZE

Mul(a, b) == (a * b) % SUB_ORDER
Add(a, b) == (a + b) % SUB_ORDER

\* The points of the curve: inCurve asks for no more than to be one.
CurvePoints == [log : 0 .. SUB_ORDER - 1, small : 0 .. COFACTOR - 1]
SubgroupPoint(log) == [log |-> log, small |-> 0]
InPrimeSubgroup(p) == p.small = 0

AddPoint(p, q) == [log |-> Add(p.log, q.log), small |-> (p.small + q.small) % COFACTOR]
MulPoint(p, k) == [log |-> Mul(p.log, k), small |-> (p.small * k) % COFACTOR]

\* By what it is: the scalar that a times it is 1.
InvModSubOrder(a) == CHOOSE b \in Scalars : Mul(a, b) = 1

\* Horner's rule, from the last coefficient down.
EvaluatePolynomial(coefficients, z) ==
    LET n == Len(coefficients)
        acc[i \in 1 .. n + 1] ==
          IF i = n + 1 THEN 0 ELSE Add(Mul(acc[i + 1], z), coefficients[i])
    IN acc[1]

\* The sum of index^(j-1) * C_j, over the commitments alone.
ExpectedPublicShare(index, commitments) ==
    LET n == Len(commitments)
        power[j \in 0 .. n] == IF j = 0 THEN 1 ELSE Mul(power[j - 1], index)
        acc[j \in 0 .. n] ==
          IF j = 0 THEN 0 ELSE Add(acc[j - 1], Mul(commitments[j], power[j - 1]))
    IN acc[n]

\* dealCommitteeKey: the secret is the constant coefficient, and each coefficient's
\* commitment is its point.
Deal(coefficients) ==
    [secret |-> coefficients[1], publicKey |-> coefficients[1], commitments |-> coefficients,
     shares |-> [i \in CommitteeIndices |-> EvaluatePolynomial(coefficients, i)]]

\* The code's loops over an array of indices, in the order of the members; whoever is
\* not among them is the unit, and has no part in it.
Product(factor) ==
    LET acc[k \in 0 .. COMMITTEE_SIZE] == IF k = 0 THEN 1 ELSE Mul(acc[k - 1], factor[k])
    IN acc[COMMITTEE_SIZE]
Sum(term) ==
    LET acc[k \in 0 .. COMMITTEE_SIZE] == IF k = 0 THEN 0 ELSE Add(acc[k - 1], term[k])
    IN acc[COMMITTEE_SIZE]

Difference(j, i) == (j - i + SUB_ORDER) % SUB_ORDER

\* lagrangeCoefficient, at zero: the product of j over that of j - i, for the other j.
LagrangeCoefficient(indices, i) ==
    LET numerator == Product([j \in CommitteeIndices |-> IF j \in indices \ {i} THEN j ELSE 1])
        denominator == Product([j \in CommitteeIndices |->
                                  IF j \in indices \ {i} THEN Difference(j, i) ELSE 1])
    IN Mul(numerator, InvModSubOrder(denominator))

\* reconstructSecret, over the secret shares.
Interpolate(part) ==
    Sum([i \in CommitteeIndices |->
           IF i \in DOMAIN part THEN Mul(part[i], LagrangeCoefficient(DOMAIN part, i)) ELSE 0])

\* combineInExponent, the same sum over decryption shares: points of the curve.
CombineInExponent(part) ==
    LET term(i) == IF i \in DOMAIN part
                   THEN MulPoint(part[i], LagrangeCoefficient(DOMAIN part, i))
                   ELSE SubgroupPoint(0)
        acc[k \in 0 .. COMMITTEE_SIZE] ==
          IF k = 0 THEN SubgroupPoint(0) ELSE AddPoint(acc[k - 1], term(k))
    IN acc[COMMITTEE_SIZE]

\* verifyShare, of the value in a member's file.
VerifyShare(i, share, publicShare, commitments) ==
    /\ share \in Scalars
    /\ publicShare = share
    /\ publicShare = ExpectedPublicShare(i, commitments)

\* verifyDealing: every share, and that the first of them reconstruct the secret.
VerifyDealing(d) ==
    /\ Len(d.commitments) = COMMITTEE_THRESHOLD
    /\ d.publicKey = d.commitments[1]
    /\ d.publicKey \in Scalars
    /\ \A i \in CommitteeIndices : VerifyShare(i, d.shares[i], d.shares[i], d.commitments)
    /\ Interpolate([i \in 1 .. COMMITTEE_THRESHOLD |-> d.shares[i]]) = d.secret

-----------------------------------------------------------------------------

DecryptionShare(share, ephemeral) == SubgroupPoint(Mul(ephemeral, share))

\* verifyDleq, of the best proof there is for the point: z * R = B + e * D leaves the
\* scalar behind D no choice, but D and B are asked only to be on the curve.  What D has
\* of small order B can make up for once the challenge is a suitable one, and there is
\* always another to draw.
VerifyDleq(publicShare, ephemeral, point) == point.log = Mul(ephemeral, publicShare)

\* sealBid and encapsulate, with r drawn for the one envelope: the key is wrapped
\* under the shared point, the payload encrypted under the key.
SealBid(publicKey, payload, dek, r) ==
    [ephemeral |-> r, wrapped |-> [key |-> dek, under |-> SubgroupPoint(Mul(publicKey, r))],
     ct |-> [key |-> dek, plain |-> payload]]

\* unwrapDek: under another point the exclusive-or is another key, here of no bid.
NoKey == 0
UnwrapDek(wrapped, shared) == IF wrapped.under = shared THEN wrapped.key ELSE NoKey

\* openSealedBid: GCM authenticates, and the payload must reproduce the commitment.
Opens(envelope, shared, commitment) ==
    /\ UnwrapDek(envelope.wrapped, shared) = envelope.ct.key
    /\ envelope.ct.plain = commitment

=============================================================================
