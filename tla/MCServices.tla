------------------------------ MODULE MCServices ------------------------------
(***************************************************************************)
(* Services about the engine: coordination of partitions, the sources that *)
(* pricing reads, and the router's batches.  They share no state, so that  *)
(* a behaviour is one of a single "part", with the variables of the others *)
(* at rest.                                                                *)
(***************************************************************************)
EXTENDS Coordination, SequencesExt

CONSTANTS
  Instrument, FixingKey, Pair, BaseQuotes, BaseFixings, MaxUpdates,
  Id, NoId, BadId, MaxRequests,
  Batches         \* MCBatches in the configurations

VARIABLES
  part,
  feed, quotes, fixings, fx_rates,
  inputs, index, outputs, errors, raised

Sources == INSTANCE MarketDataSources

Batch == INSTANCE PricingBatch

-----------------------------------------------------------------------------
(* Requests for two instruments and for none, by each form of instrument   *)
(* and each way to a price, two with reference data of a single bond, one  *)
(* of them of another bond than is asked for, and two with an id that does *)
(* not parse.                                                              *)
Bond(id) ==
  [ form |-> "bond", own |-> id, instrument_id |-> NoId, kind |-> "fixed",
    looked_up |-> "none", described |-> NoId, market_price |-> "given", quoted |-> FALSE,
    curves |-> {}, market_price_is_dirty |-> "unset" ]

Requests(a, b) ==
  { Bond(a),
    [Bond(b) EXCEPT !.kind = "floating", !.market_price = "none", !.curves = {"discount"}],
    [Bond(NoId) EXCEPT !.kind = "tips"],
    [Bond(NoId) EXCEPT !.kind = "scheduled_callable", !.market_price = "zero",
                       !.curves = {"discount", "forward"}],
    [Bond(b) EXCEPT !.form = "id", !.looked_up = "floating", !.described = b,
                    !.market_price = "zero", !.quoted = TRUE],
    [Bond(b) EXCEPT !.looked_up = "callable", !.described = a],
    [Bond(a) EXCEPT !.form = "id", !.instrument_id = b, !.kind = "none"],
    [Bond(b) EXCEPT !.form = "reference", !.instrument_id = a, !.kind = "zero",
                    !.market_price_is_dirty = "dirty"],
    [Bond(a) EXCEPT !.instrument_id = BadId],
    [Bond(BadId) EXCEPT !.form = "id", !.instrument_id = a, !.kind = "none"] }

MCBatches ==
  UNION {BoundedSeq(Requests(p[1], p[2]), MaxRequests) :
           p \in SetToSeqs(Id)}


ASSUME PartsAssumption ==
  Sources!SourceConstants /\ Batch!BatchConstants /\ << >> \in Batches

sourcing == <<feed, quotes, fixings, fx_rates>>

pricing == <<inputs, index, outputs, errors, raised>>

all == <<part, vars, sourcing, pricing>>

-----------------------------------------------------------------------------
NoBatch == inputs = <<>> /\ index = 1 /\ outputs = <<>> /\ errors = <<>> /\ raised = FALSE

PartInit ==
  \/ part = "coordination" /\ Init /\ Sources!Init /\ NoBatch
  \/ part = "sources" /\ Sources!Init /\ Init /\ NoBatch
  \/ part = "batch" /\ Batch!Init /\ Init /\ Sources!Init

PartNext ==
  \/ part = "coordination" /\ Next /\ UNCHANGED <<part, sourcing, pricing>>
  \/ part = "sources" /\ Sources!Next /\ UNCHANGED <<part, vars, pricing>>
  \/ part = "batch" /\ Batch!Next /\ UNCHANGED <<part, vars, sourcing>>

PartSpec == PartInit /\ [][PartNext]_all

-----------------------------------------------------------------------------
(* MarketDataSources: each read answers with the newest update that has    *)
(* what is asked for, of quotes, of FX rates and of fixings, and with the  *)
(* provider's data only while there is none.                               *)
ReadsAreNewest ==
  Sources!TypeOK /\ Sources!QuoteIsNewest /\ Sources!FxIsNewestForSide /\ Sources!FixingIsMerged

(* PricingBatch: every request of a batch that returns is answered.        *)
BatchAnswers == Batch!BatchAnswers

(* PricingBatch: "A failure in one item is captured as a PricingFailure    *)
(* entry without aborting the remaining batch."                            *)
FailureIsCaptured == Batch!FailureIsCaptured
=============================================================================
