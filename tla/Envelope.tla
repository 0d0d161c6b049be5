------------------------------ MODULE Envelope ------------------------------
(***************************************************************************)
(* The MIG v0.1 message envelope (types.go) and the two Go idioms every    *)
(* handler uses on it: string concatenation and map assignment.            *)
(*                                                                         *)
(* A string that the code joins with a separator or splits at one is the   *)
(* sequence of its separator-free segments.  Joining two strings with the  *)
(* separator is then concatenation of the sequences, with the ambiguity    *)
(* the code has: "a:b" joined to "c" is the same string as "a" joined to   *)
(* "b:c".  The empty string has one, empty, segment.                       *)
(***************************************************************************)
EXTENDS Naturals, Sequences

EmptyString == <<"">>

(* The empty string where no code joins or splits. *)
Blank == ""

(* m[k] = v on a Go map, represented as a function on the keys present. *)
Put(m, k, v) == [x \in DOMAIN m \cup {k} |-> IF x = k THEN v ELSE m[x]]

(* delete(m, k) *)
Without(m, k) == [x \in DOMAIN m \ {k} |-> m[x]]

(* How much of a line one call of os.File.Write leaves in the audit file:  *)
(* a call that fails may have written nothing or a part.                   *)
WriteParts == {"all", "some", "none"}

(* A call of Write.  A file is the sequence of the calls that wrote it, so *)
(* that a line after a part of one is glued to it.                         *)
Written(record, part) == [record |-> record, part |-> part]

(* Call i left a line of its own: it wrote everything, and what an earlier *)
(* call left unfinished was ended by another before it.                    *)
LineOfItsOwn(file, i) ==
    /\ file[i].part = "all"
    /\ \A j \in 1..(i - 1) : file[j].part = "some" =>
         \E k \in (j + 1)..(i - 1) : file[k].part = "all"

-----------------------------------------------------------------------------
MIGVersion == "0.1"

ErrorInvalidRequest        == "MIG_INVALID_REQUEST"
ErrorUnauthorized          == "MIG_UNAUTHORIZED"
ErrorForbidden             == "MIG_FORBIDDEN"
ErrorNotFound              == "MIG_NOT_FOUND"
ErrorUnsupportedCapability == "MIG_UNSUPPORTED_CAPABILITY"
ErrorVersionMismatch       == "MIG_VERSION_MISMATCH"
ErrorTimeout               == "MIG_TIMEOUT"
ErrorRateLimited           == "MIG_RATE_LIMITED"
ErrorBackpressure          == "MIG_BACKPRESSURE"
ErrorUnavailable           == "MIG_UNAVAILABLE"
ErrorInternal              == "MIG_INTERNAL"

StandardErrors ==
    {ErrorInvalidRequest, ErrorUnauthorized, ErrorForbidden, ErrorNotFound,
     ErrorUnsupportedCapability, ErrorVersionMismatch, ErrorTimeout, ErrorRateLimited,
     ErrorBackpressure, ErrorUnavailable, ErrorInternal}

(* MessageHeader, without the fields no decision of the service reads      *)
(* (timestamp, session, trace, meta) and without deadline_ms: Normalize    *)
(* makes it positive and the deadline may expire at any later moment.      *)
Header(versions, messageIDs, tenants, keys) ==
    [version : versions, messageID : messageIDs, tenant : tenants, key : keys]

(* Normalize returns an error exactly when this fails. *)
Normalizable(h) ==
    /\ h.version \in {Blank, MIGVersion}
    /\ h.tenant # EmptyString

(* The header Normalize leaves behind when it succeeds.  fresh stands for  *)
(* the 16 random bytes of newMessageID.                                    *)
Normalize(h, fresh) ==
    [h EXCEPT !.version = MIGVersion,
              !.messageID = IF @ = EmptyString THEN fresh ELSE @]

(* Principal.HasAnyScope: without authentication scopes are not looked at, *)
(* a capability without scopes is open to all, and any one scope will do.  *)
HasAnyScope(principal, required) ==
    \/ ~principal.authenticated
    \/ required = {}
    \/ principal.scopes \cap required # {}
=============================================================================
