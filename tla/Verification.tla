---------------------------- MODULE Verification ----------------------------
(***************************************************************************)
(* Verification of a request (client/attestation/verification.go,          *)
(* verifiers.go and attestation.go): PrepareRequest finds the              *)
(* configuration of the request, Handle asks the verifier and validates    *)
(* its answer: message integrity code, lowest used timestamp, hash.        *)
(*                                                                         *)
(* Several clients ask their own verifiers about the same request of the   *)
(* same round; the verifiers may answer differently, and differently every *)
(* time.  Handle is called again for a retry, and by the second queue an   *)
(* attestation may be in, also after a success (see RoundLife).  It holds  *)
(* Attestation.Lock, so a call is one step.                                *)
(*                                                                         *)
(* Requests and responses are sequences of 32-byte slots.  A response is   *)
(* an ABI encoding of a struct whose first fields are the type, the source,*)
(* the voting round and the lowest used timestamp (LUT); the rest is one   *)
(* slot here.  A hash is the sequence it is taken of: hashes do not        *)
(* collide.  The MIC is the hash of the standard encoding of the decoded   *)
(* struct, the leaf is the hash of the bytes that the verifier sent: one   *)
(* struct has several encodings that the decoder takes.                    *)
(***************************************************************************)
EXTENDS Integers, Sequences, Timing

CONSTANTS
    Clients,
    Requests,                 \* Attestation.Request: <<type, source, MIC>> or shorter
    Rounds,                   \* Attestation.RoundID
    AttestationTypesConfigs,  \* type -> [dynamic, sources: source -> LUTLimit]
    Structs,                  \* structs [type, source, round, lut, body] of the verifiers
    Offsets,                  \* numbers of slots in front of the struct in an answer
    Lengths,                  \* numbers of slots of an answer
    MaxUint64,                \* the largest uint64
    None

\* Names are ASCII text from the left of a slot: as numbers they are larger
\* than every uint64.
ASSUME VerificationAssumption ==
    /\ Offsets \subseteq Nat /\ Lengths \subseteq Nat
    /\ Rounds \subseteq Nat /\ MaxUint64 \in Nat
    /\ \A s \in Structs :
          /\ s = [type |-> s.type, source |-> s.source, round |-> s.round,
                  lut |-> s.lut, body |-> s.body]
          /\ s.round \in Nat /\ s.lut \in Nat
          /\ s.type \notin Nat /\ s.source \notin Nat
    /\ \A t \in DOMAIN AttestationTypesConfigs :
          /\ AttestationTypesConfigs[t].dynamic \in BOOLEAN
          /\ \A s \in DOMAIN AttestationTypesConfigs[t].sources :
                AttestationTypesConfigs[t].sources[s] \in Nat
    /\ None \notin Nat
    /\ \A s \in Structs, o \in Offsets, n \in Lengths :
          None # [struct |-> s, offset |-> o, length |-> n]

VARIABLES
    request,   \* the request, and
    roundID,   \* its round
    att,       \* att[c]: fields of the client's Attestation
    answer     \* answer[c]: what the client's verifier said last

vars == <<request, roundID, att, answer>>

TooShort(r) == Len(r) < 3
AttestationType(r) == r[1]
Source(r) == r[2]
MIC(r) == r[3]

-----------------------------------------------------------------------------
(* Responses.                                                              *)

Fields(s) == <<s.type, s.source, s.round, s.lut, s.body>>

\* n slots that encode s: a dynamic struct is found o > 0 slots from the start,
\* which the first slot says in bytes, a static one is at the start.  The slots
\* around the struct are empty, and the last ones are missing if n is too small.
Encode(s, o, n) ==
    [i \in 1..n |-> IF i = 1 /\ o > 0 THEN 32 * o
                    ELSE IF i \in (o + 1)..(o + 5) THEN Fields(s)[i - o] ELSE 0]

\* Pack: the standard encoding.
StandardOffset(dynamic) == IF dynamic THEN 1 ELSE 0
Pack(s, dynamic) ==
    Encode(s, StandardOffset(dynamic), StandardOffset(dynamic) + 5)

\* The decoder of the ABI library goes where the first slot says and does not
\* look at what is around the struct.
Start(r, dynamic) == IF dynamic THEN r[1] \div 32 ELSE 0
CanUnpack(r, dynamic) == Len(r) > 0 /\ Len(r) >= Start(r, dynamic) + 5
Unpack(r, dynamic) ==
    LET d == Start(r, dynamic)
    IN  [type |-> r[d + 1], source |-> r[d + 2], round |-> r[d + 3],
         lut |-> r[d + 4], body |-> r[d + 5]]

\* Mutant of ComputeMIC: only the common fields are hashed.
ComputeMICOfCommon(r, dynamic) ==
    Pack([Unpack(r, dynamic) EXCEPT !.body = Unpack(MIC(request), dynamic).body],
         dynamic)

\* The struct is decoded and encoded again, together with a constant.
ComputeMIC(r, dynamic) == Pack(Unpack(r, dynamic), dynamic)

\* Defined for a response that is not TooShort; an error otherwise.  A dynamic
\* struct that is not right behind the first slot is taken for a static one.
IsStaticType(r) == r[1] # 32

LUTSlot(r)   == IF IsStaticType(r) THEN 4 ELSE 5
RoundSlot(r) == IF IsStaticType(r) THEN 3 ELSE 4

\* LUT slices the response without comparing its length with the slot.
LUTPanics(r) == Len(r) < LUTSlot(r)
LUTFails(r)  == r[LUTSlot(r)] \notin 0..MaxUint64

\* Mutant of validLUT: the subtraction is done in uint64.
validLUTWraps(lut, lutLimit, roundStart) ==
    (roundStart - lut) % (MaxUint64 + 1) < lutLimit

\* math/big: the difference may be negative.
validLUT(lut, lutLimit, roundStart) == roundStart - lut < lutLimit

AddRoundFails(r) == TooShort(r) \/ Len(r) < RoundSlot(r) + 1
AddRound(r, id) == [r EXCEPT ![RoundSlot(r)] = id]

\* Mutant of Hash: the round is written into a copy.
HashOfCopy(r, id) == [response |-> r, hash |-> AddRound(r, id)]

\* Hash writes the round into the response and returns its hash.
HashFails(r) == Len(r) < 4 \/ AddRoundFails(r)
Hash(r, id) == [response |-> AddRound(r, id), hash |-> AddRound(r, id)]

-----------------------------------------------------------------------------
(* The operations of an attestation.                                       *)

\* AttestationFromDatabaseLog; nothing is prepared.
Init ==
    /\ request \in Requests
    /\ roundID \in Rounds
    /\ att = [c \in Clients |->
                [status |-> "Waiting", abi |-> None, lutLimit |-> None,
                 response |-> <<>>, hash |-> <<>>]]
    /\ answer = [c \in Clients |-> None]

Set(c, fields) ==
    att' = [att EXCEPT ![c] =
                [f \in DOMAIN @ |-> IF f \in DOMAIN fields THEN fields[f] ELSE @[f]]]

\* The configuration of the type is kept although the source has none.
PrepareRequest(c) ==
    /\ att[c].status = "Waiting"
    /\ LET type   == AttestationType(request)
           config == AttestationTypesConfigs[type]
           source == Source(request)
       IN  \/ TooShort(request) /\ Set(c, [status |-> "ProcessError"])
           \/ /\ ~TooShort(request) /\ type \notin DOMAIN AttestationTypesConfigs
              /\ Set(c, [status |-> "UnsupportedPair"])
           \/ /\ ~TooShort(request) /\ type \in DOMAIN AttestationTypesConfigs
              /\ source \notin DOMAIN config.sources
              /\ Set(c, [status |-> "UnsupportedPair", abi |-> config.dynamic])
           \/ /\ ~TooShort(request) /\ type \in DOMAIN AttestationTypesConfigs
              /\ source \in DOMAIN config.sources
              /\ Set(c, [status |-> "Processing", abi |-> config.dynamic,
                         lutLimit |-> config.sources[source]])
    /\ UNCHANGED <<request, roundID, answer>>

\* The checks once the MIC is right.
validateLUT(a, r) ==
    IF TooShort(r) THEN [status |-> "ProcessError", response |-> r]
    ELSE IF LUTPanics(r) THEN [status |-> "Panic"]
    ELSE IF LUTFails(r) THEN [status |-> "ProcessError", response |-> r]
    ELSE IF ~validLUT(r[LUTSlot(r)], a.lutLimit, ChooseStartTS(roundID))
    THEN [status |-> "InvalidLUT", response |-> r]
    ELSE IF HashFails(r)
    THEN [status |-> "ProcessError", response |-> r, hash |-> <<>>]
    ELSE [status |-> "Success", response |-> Hash(r, roundID).response,
          hash |-> Hash(r, roundID).hash]

\* Mutant of validateResponse: the LUT is read before the MIC is computed.
validateResponseLUTFirst(a, r) ==
    IF TooShort(request) THEN [status |-> "ProcessError", response |-> r]
    ELSE IF ~CanUnpack(r, a.abi) THEN validateLUT(a, r)
    ELSE IF MIC(request) # ComputeMIC(r, a.abi)
    THEN [status |-> "WrongMIC", response |-> r]
    ELSE validateLUT(a, r)

\* What Handle and validateResponse assign when the verifier answers r.
validateResponse(a, r) ==
    IF TooShort(request) \/ ~CanUnpack(r, a.abi)
    THEN [status |-> "ProcessError", response |-> r]
    ELSE IF MIC(request) # ComputeMIC(r, a.abi)
    THEN [status |-> "WrongMIC", response |-> r]
    ELSE validateLUT(a, r)

Prepared(c) == att[c].lutLimit # None

\* ResolveAttestationRequest fails: no answer in time, a status other than
\* 200, a body that is not the JSON expected.
HandleFails(c) ==
    /\ Prepared(c)
    /\ answer' = [answer EXCEPT ![c] = None]
    /\ Set(c, [status |-> "ProcessError"])
    /\ UNCHANGED <<request, roundID>>

\* The verifier answers with a status other than VALID.
HandleUnconfirmed(c) ==
    /\ Prepared(c)
    /\ answer' = [answer EXCEPT ![c] = None]
    /\ Set(c, [status |-> "Unconfirmed"])
    /\ UNCHANGED <<request, roundID>>

\* The verifier of the type answers with some encoding of s, or a part of one.
HandleConfirmed(c, s, o, n) ==
    /\ Prepared(c)
    /\ s.type = AttestationType(request)
    /\ att[c].abi <=> o > 0
    /\ Set(c, validateResponse(att[c], Encode(s, o, n)))
    /\ answer' = [answer EXCEPT ![c] = [struct |-> s, offset |-> o, length |-> n]]
    /\ UNCHANGED <<request, roundID>>

Next ==
    \E c \in Clients :
        \/ PrepareRequest(c)
        \/ HandleFails(c)
        \/ HandleUnconfirmed(c)
        \/ \E s \in Structs, o \in Offsets, n \in Lengths : HandleConfirmed(c, s, o, n)

Spec == Init /\ [][Next]_vars

-----------------------------------------------------------------------------
(* Properties.                                                             *)

Statuses ==
    {"Waiting", "UnsupportedPair", "Processing", "Success", "WrongMIC",
     "InvalidLUT", "ProcessError", "Unconfirmed"}

\* Slicing the LUT out of a response never goes beyond its end, however the
\* verifier encodes it: a response that is too short is refused when the MIC is
\* computed.
NoPanic == \A c \in Clients : att[c].status \in Statuses

SameEncoding(c, d) ==
    answer[c].offset = answer[d].offset /\ answer[c].length = answer[d].length

\* Two clients that confirm the request in the same round have the same leaf
\* for it in their Merkle trees exactly if the last answers of their verifiers
\* have the struct at the same place and the same length, whatever was answered
\* before.  The MIC, which compares decoded structs, does not make them agree:
\* with verifiers that encode in different ways, confirmed requests have
\* different leaves.
HashAgreement ==
    \A c, d \in Clients :
        att[c].status = "Success" /\ att[d].status = "Success"
            => (att[c].hash = att[d].hash <=> SameEncoding(c, d))

\* The struct is where the standard encoding has it: slots may follow.
AtStandardOffset(c) == answer[c].offset = StandardOffset(att[c].abi)

\* What the DA layer gets for a confirmed request hashes to the leaf and
\* decodes to what the MIC was made of, also after failed or repeated calls of
\* Handle; if the struct is at its standard offset, with the round of the
\* request, and otherwise with the round it came with, which is elsewhere.
ResponseProvable ==
    \A c \in Clients :
        att[c].status = "Success"
            => /\ att[c].hash = att[c].response
               /\ LET asked == Unpack(MIC(request), att[c].abi)
                  IN  Unpack(att[c].response, att[c].abi)
                         = [asked EXCEPT !.round =
                               IF AtStandardOffset(c) THEN roundID ELSE @]

Whole(c)   == answer[c].length >= answer[c].offset + 5
Asked(c)   == Pack(answer[c].struct, att[c].abi) = MIC(request)
Fresh(c)   == answer[c].struct.lut + att[c].lutLimit > ChooseStartTS(roundID)
InRange(c) == answer[c].struct.lut <= MaxUint64

\* A request is confirmed only if the verifier's last answer is the struct that
\* the MIC was made of; if the struct is at its standard offset, it is confirmed
\* exactly if also its LUT is not too old when the choose phase starts.  A LUT in
\* the future is not too old.  At another offset something else is read as LUT.
VerdictRight ==
    \A c \in Clients :
        LET asked == answer[c] # None /\ Whole(c) /\ Asked(c)
            valid == asked /\ InRange(c)
        IN  /\ att[c].status \in {"Success", "InvalidLUT"} => asked
            /\ answer[c] # None /\ AtStandardOffset(c) =>
                  /\ att[c].status = "Success" <=> valid /\ Fresh(c)
                  /\ att[c].status = "InvalidLUT" <=> valid /\ ~Fresh(c)

=============================================================================
