----------------------------- MODULE PricingBatch -----------------------------
(***************************************************************************)
(* PricingRouter (_runtime/pricing_router.py): where the price of a bond   *)
(* comes from and how it is read, and price_batch, which prices one        *)
(* request after the other into two dicts, outputs and errors, keyed by    *)
(* the request's instrument id, or by its index when it has none.          *)
(***************************************************************************)
EXTENDS Naturals, Sequences, SequencesExt

CONSTANTS
  Id,
  NoId,           \* no id
  BadId,          \* an id that does not parse
  Batches         \* the lists of requests, records as IsRequest has them

(* What is passed as the instrument: a bond, the id of one, or its         *)
(* reference data, with its own id, which only a bond may lack;            *)
(* instrument_id; the kind of the bond, and of the bond that               *)
(* reference_data makes for the id, if any; the id that reference_data     *)
(* describes when it is of a single bond, whatever is asked for, and not a *)
(* dict by id; what there is to price it from.                             *)
IsRequest(r) ==
  /\ r.form \in {"bond", "id", "reference"}
  /\ {r.own, r.instrument_id} \subseteq Id \cup {NoId, BadId}
  /\ r.own = NoId => r.form = "bond"
  /\ r.own = BadId => r.form = "id"
  /\ r.described \in Id \cup {NoId}
  /\ r.described # NoId => r.looked_up # "none"
  /\ {r.kind, r.looked_up} \subseteq
       {"fixed", "zero", "callable", "scheduled_callable", "tips", "floating", "none"}
  /\ r.market_price \in {"none", "zero", "given"}
  /\ r.quoted \in BOOLEAN /\ r.curves \subseteq {"discount", "forward"}
  /\ r.market_price_is_dirty \in {"unset", "dirty", "clean"}

BatchConstants ==
  /\ NoId \notin Id /\ BadId \notin Id /\ NoId # BadId
  /\ \A b \in Batches :
       b \in Seq({b[i] : i \in DOMAIN b}) /\ \A i \in DOMAIN b : IsRequest(b[i])

VARIABLES
  inputs,
  index,      \* the request that is next
  outputs,    \* the dict of outputs as a sequence of [key, from, value], in
  errors,     \* the order of insertion; likewise the dict of errors
  raised      \* whether price_batch ended with an exception

vars == <<inputs, index, outputs, errors, raised>>

-----------------------------------------------------------------------------
(* _resolve_instrument_and_id: the id that is passed as the instrument     *)
(* comes before instrument_id, which comes before the bond's own.          *)
RequestedId(r) ==
  IF r.form = "bond" /\ r.instrument_id # NoId THEN r.instrument_id ELSE r.own

(* Reference data of a single bond replaces the id, too, if there is one.  *)
RoutedId(r) ==
  IF r.form # "reference" /\ RequestedId(r) # NoId /\ r.described # NoId
  THEN r.described ELSE RequestedId(r)

(* The bond that the reference data describes replaces the one passed.     *)
RoutedBond(r) ==
  CASE r.form = "reference" -> r.kind
    [] r.form # "reference" /\ r.looked_up # "none" /\ RoutedId(r) # NoId -> r.looked_up
    [] OTHER -> IF r.form = "bond" THEN r.kind ELSE "none"

(* market_price or the quote: a price of zero counts as none.              *)
Anchor(r) ==
  IF r.market_price = "given" THEN "market_price"
  ELSE IF r.quoted /\ RoutedId(r) # NoId THEN "quote" ELSE "curves"

(* What price() needs when there is no market price.                       *)
Needed(kind) == IF kind = "floating" THEN {"discount", "forward"} ELSE {"discount"}

(* RoutingError, or an id that does not parse; what the calculations may   *)
(* raise besides is caught in the same way.                                *)
Raises(r) ==
  \/ BadId \in {r.own, r.instrument_id}
  \/ RoutedBond(r) = "none"
  \/ Anchor(r) = "curves" /\ (RoutedBond(r) = "tips" \/ ~ Needed(RoutedBond(r)) \subseteq r.curves)

(* A market price is clean unless the request says otherwise; the price of *)
(* a floating-rate note is dirty unless the request says otherwise, and    *)
(* what the curves give is always dirty.                                   *)
ReadAs(r) ==
  IF Anchor(r) = "curves" THEN "dirty"
  ELSE IF r.market_price_is_dirty # "unset" THEN r.market_price_is_dirty
  ELSE IF RoutedBond(r) = "floating" THEN "dirty" ELSE "clean"

Path(r) ==
  CASE RoutedBond(r) = "floating" -> "floating_rate"
    [] RoutedBond(r) = "tips" -> "tips_real_yield"
    [] RoutedBond(r) = "scheduled_callable" -> "callable"
    [] OTHER -> "fixed"

Priced(r) == [id |-> RoutedId(r), path |-> Path(r), anchor |-> Anchor(r), read_as |-> ReadAs(r)]

-----------------------------------------------------------------------------
(* PricingInput.key: instrument_id comes before the id of the instrument.  *)
KeyId(r) == IF r.instrument_id # NoId THEN r.instrument_id ELSE r.own

Key(i) == IF KeyId(inputs[i]) = NoId THEN <<"batch", i>> ELSE <<"id", KeyId(inputs[i])>>

Keys(d) == {d[j].key : j \in DOMAIN d}

(* d[key] = value keeps the place of a key that is there.                  *)
Put(d, entry) ==
  IF entry.key \in Keys(d)
  THEN [j \in DOMAIN d |-> IF d[j].key = entry.key THEN entry ELSE d[j]]
  ELSE Append(d, entry)

OutputOf(i) == [key |-> Key(i), from |-> i, value |-> Priced(inputs[i])]

ErrorOf(i) == [key |-> Key(i), from |-> i]

Init ==
  /\ inputs \in Batches
  /\ index = 1
  /\ outputs = << >> /\ errors = << >>
  /\ raised = FALSE

More == ~ raised /\ index =< Len(inputs)

(* pricing_input.key(index) parses the id outside the try.                 *)
KeyRaises ==
  /\ More /\ KeyId(inputs[index]) = BadId
  /\ raised' = TRUE
  /\ UNCHANGED <<inputs, index, outputs, errors>>

PriceSucceeds ==
  /\ More /\ KeyId(inputs[index]) # BadId /\ ~ Raises(inputs[index])
  /\ outputs' = Put(outputs, OutputOf(index))
  /\ index' = index + 1
  /\ UNCHANGED <<inputs, errors, raised>>

(* Mutant: the first failure ends the batch.                               *)
EndAfterFailure == Len(inputs) + 1

AfterFailure == index + 1

PriceFails ==
  /\ More /\ KeyId(inputs[index]) # BadId /\ Raises(inputs[index])
  /\ errors' = Put(errors, ErrorOf(index))
  /\ index' = AfterFailure
  /\ UNCHANGED <<inputs, outputs, raised>>

Next == KeyRaises \/ PriceSucceeds \/ PriceFails

Spec == Init /\ [][Next]_vars

-----------------------------------------------------------------------------
Returned == ~ raised /\ index > Len(inputs)

LastWithKey(i) == \A j \in i + 1 .. Len(inputs) : Key(j) # Key(i)

From(d) == {d[j].from : j \in DOMAIN d}

Ascending(d) == \A i, j \in DOMAIN d : i < j => d[i].from < d[j].from

NamesOne(r) ==
  /\ r.own = NoId \/ r.instrument_id \in {NoId, r.own}
  /\ r.form # "reference" => r.described \in {NoId, KeyId(r)}

(* A batch that returns has, for every key, an answer to the last request  *)
(* with that key, of the kind that request alone would get, whatever       *)
(* failed before it; and with one request per key it has nothing else, in  *)
(* the order of the requests.  An answer names the key it is stored under  *)
(* unless the request names two instruments, one of which may be that of   *)
(* the reference data it brings.                                           *)
BatchAnswers ==
  Returned =>
    /\ \A i \in DOMAIN inputs : LastWithKey(i) =>
         i \in From(IF Raises(inputs[i]) THEN errors ELSE outputs)
    /\ (\A i \in DOMAIN inputs : LastWithKey(i)) =>
         /\ Len(outputs) + Len(errors) = Len(inputs)
         /\ Ascending(outputs) /\ Ascending(errors)
    /\ \A j \in DOMAIN outputs :
         LET r == inputs[outputs[j].from]
         IN  NamesOne(r) /\ outputs[j].key[1] = "id" => outputs[j].value.id = outputs[j].key[2]

(* What each of the dicts holds while the batch is priced.                 *)
Answered(fails) == {i \in 1 .. index - 1 : Raises(inputs[i]) <=> fails}

OneEach(d) == \A i, j \in DOMAIN d : d[i].key = d[j].key => i = j

HasNewest(d, answered) ==
  \A i \in answered : (\A j \in i + 1 .. index - 1 : Key(j) # Key(i)) => i \in From(d)

IInv ==
  /\ inputs \in Batches /\ index \in 1 .. Len(inputs) + 1
  /\ outputs \in Seq({OutputOf(i) : i \in Answered(FALSE)})
  /\ errors \in Seq({ErrorOf(i) : i \in Answered(TRUE)})
  /\ OneEach(outputs) /\ OneEach(errors)
  /\ HasNewest(outputs, Answered(FALSE)) /\ HasNewest(errors, Answered(TRUE))
  /\ (\A i \in DOMAIN inputs : LastWithKey(i)) =>
       /\ Len(outputs) + Len(errors) = index - 1
       /\ Ascending(outputs) /\ Ascending(errors)

(* "A failure in one item is captured as a PricingFailure entry without    *)
(* aborting the remaining batch."                                          *)
FailureIsCaptured == ~ raised
=============================================================================
