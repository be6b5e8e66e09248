--------------------------- MODULE ReceiptFormat ---------------------------
(***************************************************************************)
(* Signed receipts as the clients read them: the three format checks (the  *)
(* SDK's, the web page's, and the one that the page's stored history goes  *)
(* through) and the two signature checks.                                  *)
(*                                                                         *)
(* A receipt is what the gateway writes except for some odd fields: odd    *)
(* maps a field to the kind of JSON value in its place.  A hash is the     *)
(* text that it is of, and a signature names its key, the content that it  *)
(* covers and the recovery id in its last byte.                            *)
(***************************************************************************)
EXTENDS Integers

Fields == {"id", "version", "timestamp", "payer", "recipient", "amount", "token", "chainId",
           "nonce", "endpoint", "request_hash", "response_hash", "signature",
           "server_public_key"}

\* A string with the prefix that its field must have, one without, a positive
\* integer, ...; "absent" stands for undefined and null, and for a field of a
\* payment or service that is not an object.
Strings == {"prefixed", "text", "empty"}
Numbers == {"integer", "fraction", "zero"}
Kinds == Strings \cup Numbers \cup {"object", "absent"}

Prefixed == {"id", "request_hash", "response_hash", "signature", "server_public_key"}

\* What GenerateReceipt and signReceipt write.
GatewayKind(f) ==
  IF f \in Prefixed THEN "prefixed" ELSE IF f = "chainId" THEN "integer" ELSE "text"

NoOdd == [f \in {} |-> "absent"]

Kind(r, f) == IF f \in DOMAIN r.odd THEN r.odd[f] ELSE GatewayKind(f)

\* JavaScript's truth of a value.
Truthy == Kinds \ {"empty", "zero", "absent"}

\* validateReceiptFormat of the SDK.
SdkAccepts(f) ==
  IF f \in Prefixed THEN {"prefixed"}
  ELSE IF f = "chainId" THEN {"integer"}
  ELSE {"prefixed", "text"}

\* validateReceiptFormat of the page, in safeDecodeReceiptHeader's try: a
\* startsWith that is not there throws, and the receipt is dropped as well.
WebAccepts(f) ==
  IF f \in {"id", "signature", "server_public_key"} THEN {"prefixed"}
  ELSE IF f = "chainId" THEN Kinds
  ELSE Truthy

\* isValidEntry of the stored history.
EntryAccepts(f) ==
  IF f \in {"signature", "server_public_key"} THEN {"prefixed"}
  ELSE IF f = "chainId" THEN Numbers
  ELSE IF f \in {"version", "timestamp", "nonce"} THEN Kinds
  ELSE Strings

SdkValid(r) == \A f \in Fields : Kind(r, f) \in SdkAccepts(f)
WebValid(r) == \A f \in Fields : Kind(r, f) \in WebAccepts(f)
EntryValid(r) == \A f \in Fields : Kind(r, f) \in EntryAccepts(f)
-----------------------------------------------------------------------------
\* What the signature covers: serializeReceiptForGateway, with the fields in
\* the order of Go's struct.
Content(r) == [id |-> r.id, endpoint |-> r.endpoint, request |-> r.request,
               response |-> r.response, odd |-> r.odd]

\* ethers: the parity that a v stands for; EIP-155 beyond the usual values.
Parity(v) == IF v \in {0, 27} THEN 0 ELSE IF v \in {1, 28} THEN 1 ELSE 1 - (v % 2)

\* recoverPublicKey: the signer's key if content and parity are the signed ones,
\* otherwise some other key, or none.
Recovers(r, v, key) ==
  r.sig.by = key /\ r.sig.of = Content(r) /\ Parity(v) = r.sig.parity

\* verifyReceipt of the SDK: the key is the trusted one, in the receipt too.
SdkVerify(r, trusted) ==
  /\ SdkValid(r)
  /\ r.key = trusted
  /\ Recovers(r, IF r.sig.v <= 1 THEN r.sig.v + 27 ELSE r.sig.v, trusted)

\* verifyReceipt of the page: the key is the receipt's own.
WebVerify(r) ==
  /\ \A f \in {"signature", "server_public_key"} : Kind(r, f) \in Truthy
  /\ Recovers(r, r.sig.v + 27, r.key)
=============================================================================
