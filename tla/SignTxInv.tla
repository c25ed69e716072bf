------------------------------ MODULE SignTxInv ------------------------------
(* The inductive invariant of SignTx, in named parts.                      *)
EXTENDS SignTx

\* Number of outputs decoded before the current chunk: outputs[j] is output
\* Base + j of the transaction.
Base == ctx.current_output - ctx.buffer_output_len

\* Which handler phases, screens and contexts go together.
Phases ==
  /\ pc # "wait" => reply = "PENDING" /\ ctx.state = "RECV_DATA"
  /\ pc = "decode" \/ Idle => screen \in {"menu", "processing"}
  /\ pc = "wait" /\ reply = "PENDING" =>
       \/ screen = "output" /\ ctx.state = "RECV_DATA"
       \/ screen = "confirm" /\ ctx.state = "PARSED"
  /\ ctx.state = "PARSED" => pc = "wait" /\ reply = "PENDING"

\* What the context knows of the transaction being received.
Session ==
  /\ tx # NoTx => /\ ctx.state # "NONE"
                  /\ ctx.change_info = tx.change
                  /\ ctx.outputs_len = Len(tx.outputs)
  /\ tx = NoTx => ctx.outputs_len = 0

\* How far the decoder is.
Progress ==
  /\ ctx.current_output <= ctx.outputs_len
  /\ ctx.buffer_output_len <= ctx.current_output
  /\ ctx.current_output > 0 => ctx.remaining_tokens = 0 /\ ctx.remaining_inputs = 0
  /\ ctx.state = "RECV_DATA" /\ Idle => ctx.buffer_output_len = 0
  /\ ctx.state = "RECV_DATA" /\ (pc = "decode" \/ Idle) => ctx.display_index = 0
  /\ pc = "show" \/ (pc = "wait" /\ screen = "output") => ctx.buffer_output_len > 0

\* One pointer for each token decoded, of a transaction whose tokens fit.
TokensCounted ==
  tx # NoTx /\ tx.tokens <= TX_MAX_TOKENS =>
    ctx.tokens_len + ctx.remaining_tokens = tx.tokens

\* The outputs on the table, and the two counters of the review, which are
\* bytes: they count together, up to a wrap of the second.
Aligned ==
  ctx.state = "RECV_DATA" =>
    /\ \A j \in Slots : j < ctx.buffer_output_len => ctx.outputs[j] = Base + j
    /\ \/ ctx.confirmed_outputs = Base + ctx.display_index
       \/ ctx.confirmed_outputs = Base + ctx.display_index - 256
    /\ pc = "wait" /\ screen = "output" =>
         ctx.confirmed_outputs \notin ChangeIndices(ctx)

\* Every entry of the change info for a decoded output derives its key.
ChangeVerified ==
  \A k \in DOMAIN ctx.change_info :
    ctx.change_info[k].index < ctx.current_output =>
      ctx.change_info[k].path = tx.outputs[ctx.change_info[k].index + 1].key

\* The review has covered every decoded output it has passed.
PassedCovered ==
  ctx.state = "RECV_DATA" =>
    \A i \in 0..(ctx.current_output - 1) : i < Base + ctx.display_index => Covered(i)

\* A decoder that has stopped leaves nothing behind the last element, and
\* without change outputs the review does not leave the chunk.
NothingLeft ==
  /\ ctx.state \in {"RECV_DATA", "PARSED", "APPROVED"} /\ pc # "decode" =>
       \/ ctx.remaining_tokens > 0 \/ ctx.remaining_inputs > 0
       \/ ctx.current_output < ctx.outputs_len
       \/ ctx.buffer_len = 0
  /\ ctx.state = "RECV_DATA" /\ ctx.change_info = <<>> =>
       /\ ctx.display_index <= ctx.buffer_output_len
       /\ pc = "wait" /\ screen = "output" => ctx.display_index < ctx.buffer_output_len

IInv == /\ TypeOK /\ Phases /\ Session /\ Progress /\ TokensCounted /\ Aligned
        /\ ChangeVerified /\ PassedCovered /\ ApprovedCovers
        /\ NothingLeft /\ ApprovedCompleteNoChange

===============================================================================
