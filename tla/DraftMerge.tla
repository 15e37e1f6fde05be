----------------------------- MODULE DraftMerge -----------------------------
(***************************************************************************)
(* What a conversation has asked for so far:                                *)
(* services/accumulated_draft_merge.py, and the functions of                 *)
(* services/conversation_advancement.py that decide when it is an order.      *)
(*                                                                         *)
(* Every turn the parser reads the whole transcript and answers with a        *)
(* snapshot of the order; the snapshot is merged into the accumulated draft.  *)
(* The parser may leave out, rename or repeat what it had found before.       *)
(* Of the scalar fields, which are all merged alike, the model keeps the      *)
(* phone and the packaging fee.                                             *)
(***************************************************************************)
EXTENDS Integers, Sequences, FiniteSetsExt, Functions

CONSTANTS Product,        \* product ids, a set of positive numbers
          Text,           \* modifications as the parser words them
          Normalized,     \* Text -> Text: stripped, in lower case
          Phone, NoPhone

Unknown == 0  \* product_id "" or None: the parser did not recognise the item

ASSUME MergeAssumption ==
    /\ Product \subseteq Nat \ {0}
    /\ Normalized \in [Text -> Text]
    /\ \A t \in Text : Normalized[Normalized[t]] = Normalized[t]
    /\ NoPhone \notin Phone

\* _item_key: an item is identified by its product and normalised modifications.
ItemKey == (Product \cup {Unknown}) \X Text

\* The parser finds products, or does not recognise them, and numbers: nothing
\* else is known of its items, and a quantity may be 0 or negative.
RawItem == [product : Product \cup {Unknown}, text : Text, quantity : Int]

Key(raw) == <<raw.product, Normalized[raw.text]>>

\* AccumulatedDraft, its items by their keys.  No prior draft merges like an
\* empty one.
NoDraft == [items |-> [k \in {} |-> 0], conflicts |-> {}, phone |-> NoPhone,
            packaging_fee |-> 0, is_complete |-> FALSE]

KeysOf(raw_items) == {Key(raw_items[i]) : i \in DOMAIN raw_items}

\* parsed_item_map: items of one key are combined.
Snapshot(raw_items) ==
    LET quantities == [i \in DOMAIN raw_items |-> raw_items[i].quantity]
    IN [k \in KeysOf(raw_items) |->
           SumFunctionOnSet(quantities, {i \in DOMAIN raw_items : Key(raw_items[i]) = k})]

\* _compute_is_complete
IsComplete(items, conflicts) ==
    /\ DOMAIN items # {}
    /\ \A k \in DOMAIN items : k[1] # Unknown /\ items[k] > 0
    /\ conflicts = {}

\* Seeded fault: what the snapshot leaves out is dropped.
MergedForgetting(prior, parsed) ==
    LET items == Snapshot(parsed.items)
    IN [items |-> items, conflicts |-> {},
        phone |-> IF parsed.phone = NoPhone THEN prior.phone ELSE parsed.phone,
        packaging_fee |-> IF parsed.packaging_fee = 0 THEN prior.packaging_fee
                          ELSE parsed.packaging_fee,
        is_complete |-> IsComplete(items, {})]

\* merge_parse_result_into_draft: the snapshot's items replace what was there;
\* items it leaves out are kept, as conflicts.
Merged(prior, parsed) ==
    LET new == Snapshot(parsed.items)
        left_out == DOMAIN prior.items \ DOMAIN new
        items == [k \in DOMAIN new \cup left_out |->
                     IF k \in left_out THEN prior.items[k] ELSE new[k]]
    IN [items |-> items,
        conflicts |-> left_out,
        phone |-> IF parsed.phone = NoPhone THEN prior.phone ELSE parsed.phone,
        packaging_fee |-> IF parsed.packaging_fee = 0 THEN prior.packaging_fee
                          ELSE parsed.packaging_fee,
        is_complete |-> IsComplete(items, left_out)]

\* _accumulated_is_ready_for_draft
IsReady(draft, products) ==
    /\ draft.is_complete
    /\ \A k \in DOMAIN draft.items : k[1] \in products

\* _accumulated_to_draft_request, with the phone of the session for want of
\* another.
ToRequest(draft, session_phone) ==
    [items |-> draft.items,
     phone |-> IF draft.phone = NoPhone THEN session_phone ELSE draft.phone,
     packaging_fee |-> draft.packaging_fee]
==============================================================================
