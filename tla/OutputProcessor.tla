-------------------------- MODULE OutputProcessor --------------------------
(***************************************************************************)
(* The bookkeeping of the API server process: OutputProcessor,             *)
(* RequestState and RequestOutputCollector (v1/engine/output_processor.py) *)
(* and ParentRequest (v1/engine/parallel_sampling.py), as operators from a *)
(* state op of the bookkeeping to the next:                                *)
(*   request_states      the registered requests                           *)
(*   external_req_ids    pairs <<external id, request>>                    *)
(*   parent_requests     the registered parents                            *)
(*   child_requests[g]   ParentRequest.child_requests                      *)
(*   aggregator[r]       r's entry of ParentRequest.output_aggregator      *)
(*   ids[r], sent[r]     the detokenizer's tokens, sent_tokens_offset      *)
(*   q[g]                RequestOutputCollector.output                     *)
(* A call g of generate() asks for n[g] completions; request <<g, i>> is   *)
(* its i-th, g's only one when n[g] = 1.  A token is its number in the     *)
(* completion; text and logprobs go with the tokens and are left out, and  *)
(* so are pooling requests, streaming inputs and statistics.               *)
(***************************************************************************)
EXTENDS Integers, SequencesExt

CONSTANTS
  Calls,            \* calls of generate()
  n,                \* n[g]: SamplingParams.n
  external_req_id,  \* external_req_id[g]: the id the caller gave, not unique
  stream_interval

ASSUME OutputAssumption ==
  /\ \A g \in Calls : n[g] \in Nat \ {0}
  /\ stream_interval \in Nat \ {0}

Kinds == {"DELTA", "CUMULATIVE", "FINAL_ONLY"}

ChildrenOf(g) == {<<g, i>> : i \in 1 .. n[g]}
Requests == UNION {ChildrenOf(g) : g \in Calls}

Nothing == [type |-> "none"]
Failure == [type |-> "error"]     \* an exception in the collector
Outputs(outs, finished) == [type |-> "output", outs |-> outs, finished |-> finished]

op_init ==
  [request_states |-> {}, external_req_ids |-> {}, parent_requests |-> {},
   child_requests |-> [g \in Calls |-> {}],
   aggregator |-> [r \in Requests |-> [ids |-> <<>>, finished |-> FALSE]],
   ids |-> [r \in Requests |-> <<>>], sent |-> [r \in Requests |-> 0],
   q |-> [g \in Calls |-> Nothing]]

-----------------------------------------------------------------------------
(* RequestOutputCollector *)

\* Mutant: the output in the collector gives way to the next.
Merge_overwrites(old, new, kind) == new

\* RequestOutput.add: completions of other indices are kept, those of the same index
\* concatenated when streaming deltas and replaced otherwise.
Merge(old, new, kind) ==
  LET one(r) == IF r \notin DOMAIN new.outs THEN old.outs[r]
                ELSE IF r \notin DOMAIN old.outs \/ kind # "DELTA" THEN new.outs[r]
                ELSE [ids |-> old.outs[r].ids \o new.outs[r].ids,
                      finished |-> new.outs[r].finished]
  IN  Outputs([r \in DOMAIN old.outs \cup DOMAIN new.outs |-> one(r)],
              old.finished \/ new.finished)

\* An exception replaces what was not read, and nothing replaces an exception.
put(op, g, out, kind) ==
  LET old == op.q[g]
      new == IF old = Nothing \/ out = Failure THEN out
             ELSE IF old = Failure THEN old
             ELSE Merge(old, out, kind)
  IN  [op EXCEPT !.q[g] = new]

-----------------------------------------------------------------------------
(* RequestState and ParentRequest *)

\* Mutant: the first completion to finish finishes the call.
get_outputs_any(op, r, completion, kind) ==
  LET g    == r[1]
      left == IF completion.finished THEN op.child_requests[g] \ {r} ELSE op.child_requests[g]
  IN  [op  |-> [op EXCEPT !.child_requests[g] = left, !.aggregator[r] = completion],
       out |-> Outputs([s \in {r} |-> completion], completion.finished)]

\* ParentRequest.get_outputs: the output of the call that r's completion makes
get_outputs(op, r, completion, kind) ==
  LET g       == r[1]
      already == completion.finished /\ r \notin op.child_requests[g]
      left    == IF completion.finished THEN op.child_requests[g] \ {r}
                                        ELSE op.child_requests[g]
      all     == [op.aggregator EXCEPT ![r] = completion]
      outs    == IF kind = "FINAL_ONLY"
                 THEN IF left # {} THEN << >> ELSE [s \in ChildrenOf(g) |-> all[s]]
                 ELSE IF already THEN << >> ELSE [s \in {r} |-> completion]
  IN  [op  |-> [op EXCEPT !.child_requests[g] = left,
                          !.aggregator = IF kind = "FINAL_ONLY" THEN all ELSE @],
       out |-> IF outs = << >> THEN Nothing ELSE Outputs(outs, left = {})]

\* The tokens a streamed output carries.
Unsent(op, r, new) ==
  IF stream_interval > 1 THEN SubSeq(op.ids[r], op.sent[r] + 1, Len(op.ids[r])) ELSE new

make_request_output(op, r, new, finished, kind) ==
  LET g      == r[1]
      silent == \/ ~finished /\ kind = "FINAL_ONLY"
                \/ /\ stream_interval > 1
                   /\ ~finished
                   /\ op.sent[r] # 0
                   /\ Len(op.ids[r]) - op.sent[r] < stream_interval
      toks   == IF kind = "DELTA" THEN Unsent(op, r, new) ELSE op.ids[r]
      now    == IF kind = "DELTA" /\ stream_interval > 1
                THEN [op EXCEPT !.sent[r] = Len(op.ids[r])] ELSE op
      completion == [ids |-> toks, finished |-> finished]
  IN  IF silent THEN [op |-> op, out |-> Nothing]
      ELSE IF n[g] = 1 THEN [op |-> now, out |-> Outputs([s \in {r} |-> completion], finished)]
      ELSE get_outputs(now, r, completion, kind)

\* make_request_output and the put of what it makes
emit(op, r, new, finished, kind) ==
  LET made == make_request_output(op, r, new, finished, kind)
  IN  IF made.out = Nothing THEN made.op ELSE put(made.op, r[1], made.out, kind)

-----------------------------------------------------------------------------
(* OutputProcessor *)

\* add_request for every completion of call g
op_add_request(op, g) ==
  [op EXCEPT !.request_states = @ \cup ChildrenOf(g),
             !.external_req_ids = @ \cup ({external_req_id[g]} \X ChildrenOf(g)),
             !.parent_requests = IF n[g] > 1 THEN @ \cup {g} ELSE @,
             !.child_requests[g] = IF n[g] > 1 THEN ChildrenOf(g) ELSE {}]

Unlist(op, r) == [op EXCEPT !.external_req_ids = @ \ {<<external_req_id[r[1]], r>>}]

\* abort_requests of requests that are registered, with their final outputs
abort_states(op, rs, kinds) ==
  FoldLeft(LAMBDA o, r : emit([Unlist(o, r) EXCEPT !.request_states = @ \ {r}],
                              r, <<>>, TRUE, kinds[r[1]]),
           op, SetToSeq(rs))

\* What an abort of call g, by its internal id, takes: its request or, through the
\* parent's entry, the completions that are not finished.
OfCall(op, g) ==
  IF n[g] = 1 THEN ChildrenOf(g) \cap op.request_states
  ELSE IF g \in op.parent_requests THEN op.child_requests[g] \cap op.request_states
  ELSE {}

abort_call(op, g, kinds) ==
  [abort_states(op, OfCall(op, g), kinds) EXCEPT !.parent_requests = @ \ {g}]

\* What an abort by external id takes; the parents' entries stay.
OfExternal(op, e) == {r \in op.request_states : <<e, r>> \in op.external_req_ids}


propagate_error(op) ==
  [op EXCEPT !.q = [g \in Calls |-> IF ChildrenOf(g) \cap op.request_states # {}
                                    THEN Failure ELSE op.q[g]]]

\* Mutant: the entry of a finished request stays in the map of external ids.
finish_request_listed(op, r) ==
  LET o == [op EXCEPT !.request_states = @ \ {r}]
  IN  IF op.child_requests[r[1]] = {} THEN [o EXCEPT !.parent_requests = @ \ {r[1]}] ELSE o

\* _finish_request
finish_request(op, r) ==
  LET o == [Unlist(op, r) EXCEPT !.request_states = @ \ {r}]
  IN  IF op.child_requests[r[1]] = {} THEN [o EXCEPT !.parent_requests = @ \ {r[1]}] ELSE o

\* process_outputs for one output of a registered request; stop: a stop string matched
process_output(op, r, new, finished, stop, kind) ==
  LET seen == [op EXCEPT !.ids[r] = @ \o new]
      sent == emit(seen, r, new, finished \/ stop, kind)
  IN  IF finished \/ stop THEN finish_request(sent, r) ELSE sent
=============================================================================
