------------------------------ MODULE Embedder ------------------------------
(***************************************************************************)
(* How the vectors of a document's passages are computed (embedder.py):     *)
(* there is no state, the algorithm is a function of the passages and their *)
(* lengths in tokens.                                                       *)
(***************************************************************************)
EXTENDS Integers, FiniteSets, Sequences

CONSTANTS
    TokenBudget,     \* token_budget: padded tokens a batch may have
    Lengths          \* lengths a passage may have

ASSUME EmbedderAssumption ==
    TokenBudget \in Nat /\ Lengths \subseteq Nat /\ Lengths # {}

-----------------------------------------------------------------------------
(* sorted(range(n), key=counts, reverse=True): longest first, and equals in *)
(* their own order; the k-th has k - 1 before it.                           *)
Before(counts, i, j) == counts[i] > counts[j] \/ (counts[i] = counts[j] /\ i < j)

Order(counts) ==
    [k \in DOMAIN counts |->
        CHOOSE i \in DOMAIN counts :
            Cardinality({j \in DOMAIN counts : Before(counts, j, i)}) = k - 1]

(* Mutant: room for the batch as it is, without the passage to be added. *)
FitsAsItIs(current, counts) == Len(current) * counts[Head(current)] <= TokenBudget

(* Whether one more passage fits: all are padded to the first one's length. *)
Fits(current, counts) == (Len(current) + 1) * counts[Head(current)] <= TokenBudget

(* "batches" and "current": the batches so far, the last one still open.    *)
Closed(made) ==
    IF made.current = <<>> THEN made.done ELSE Append(made.done, made.current)

Place(made, i, counts) ==
    IF made.current # <<>> /\ Fits(made.current, counts)
    THEN [made EXCEPT !.current = Append(@, i)]
    ELSE [done |-> Closed(made), current |-> <<i>>]

(* _batches: a batch is closed when the next passage no longer fits.        *)
Batches(counts) ==
    LET made[k \in 0 .. Len(counts)] ==
            IF k = 0 THEN [done |-> <<>>, current |-> <<>>]
            ELSE Place(made[k - 1], Order(counts)[k], counts)
    IN  Closed(made[Len(counts)])

(* Mutant: the vectors in the order they were computed. *)
ScatterInOrder(out, batch, vectors) == out \o vectors

(* "out[i] = vec" for a batch and its vectors.                              *)
Scatter(out, batch, vectors) ==
    [i \in DOMAIN out |->
        IF \E k \in DOMAIN batch : batch[k] = i
        THEN vectors[CHOOSE k \in DOMAIN batch : batch[k] = i] ELSE out[i]]

(* What the model makes of a text, whatever it is padded to.                *)
Vector(text) == [of |-> text]
NoVector     == [of |-> -1]

(* model.encode: the vectors of a batch, in its order; none when its tokens *)
(* with the padding are beyond the memory the budget stands for.            *)
Encode(texts, lengths) ==
    [k \in DOMAIN texts |->
        IF Len(texts) = 1 \/ \A n \in DOMAIN texts : Len(texts) * lengths[n] <= TokenBudget
        THEN Vector(texts[k]) ELSE NoVector]

(* encode_passages. *)
EncodePassages(texts, counts) ==
    LET batches == Batches(counts)
        Embed(batch) == Encode([k \in DOMAIN batch |-> texts[batch[k]]],
                               [k \in DOMAIN batch |-> counts[batch[k]]])
        out[k \in 0 .. Len(batches)] ==
            IF k = 0 THEN [i \in DOMAIN texts |-> NoVector]
            ELSE Scatter(out[k - 1], batches[k], Embed(batches[k]))
    IN  out[Len(batches)]

(* The vectors the i-th of n passages may get, over all lengths they may    *)
(* have; passages are told apart by the ord of the row they are for.        *)
VectorsOfPassage(n, i) ==
    {EncodePassages([k \in 1 .. n |-> k - 1], counts)[i + 1] :
        counts \in [1 .. n -> Lengths]}

=============================================================================
