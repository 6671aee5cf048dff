# TLA+ models of the Mitro C++ client

This directory holds TLA+ models of the C++ client in
`src/mitro-core/cpp/mitro_api/`, and the TLC configurations that check them.

## The system

| Part | Source | State | Operations |
|---|---|---|---|
| `MitroApiClient` session | `mitro_api.cc` | `username_`, `user_private_key_`, `user_group_id_`, `user_group_private_key_` | `Login`, `Logout`, `OnGetMyPrivateKey`, `GetDeviceKey`/`OnGetMyDeviceKey`, `OnGetMyPrivateKeyDeviceKeyCallback`, `FinishGetMyPrivateKey` |
| Secrets and the key hierarchy | `mitro_api.cc` | `key_cache_` (encrypted group key → key), `decryption_cache_` (ciphertext → plaintext) | `GetSecretsList`/`OnGetSecretsList`, `SetUserGroupIdAndKeyFromSecretsListResponse`, `GetDecryptionKeyForSecret`, `DecryptUsingCache`, `DecryptSecret`, `GetSecret`/`OnGetSecret`, `AddSecretPassword`/`AddSecretNote` (through `AddSecretCommon`)/`OnAddSecret` |
| Request serialisation (`TSimpleJSONProtocol` writer) | `TSimpleJSONProtocol.cpp/.hpp` | `context_`, `contexts_`, the `TMemoryBuffer` | the `write*` calls |
| `TSimpleJSONProtocol` reader | same | `parser_context_` stack, `key_value_` | `readStructBegin`, `readFieldBegin`, `nextValue`, the `read*` calls |
| Writer then reader | same | the buffer handed from one to the other | `write()`, `JSONReader::Read`, `read()` |
| External parts | not in `src/` | | HTTP client, keyczar / `MitroPrivateKey`, `TMemoryBuffer`, Thrift-generated `write()` |
| iOS `AddSecretViewController.h` | `src/mitro-core/ios` | | a UI declaration with no behaviour (not modelled) |

**How the parts interact.** The client is single-threaded. Each public call
builds a Thrift request struct and serialises it through one shared
`protocol_`/`transport_` pair (`PostRequest`, and the same pattern in `Login`,
`GetDeviceKey`, `GetSecretsList`, `GetSecret` and `AddSecretCommon`). The call
then posts the request over HTTP with a callback bound by
`base::Unretained(this)`. Callbacks run later, in any order, and each one runs
to completion. A response handler changes the session state: the user key,
the default group, and the caches that the key-path walk of `DecryptSecret`
fills.

## Modules

- **`MitroApiClient.tla`** models the session object.
  - The variables are the members listed above, plus:
    - `inflight`, a bag of the HTTP requests whose callback has not run yet;
    - `fault`, the handler that dereferenced a null key (a crash);
    - the caller's state: the secrets list it holds and which Secrets it has decoded.
  - Each handler is one action: `Login`, `Logout`, `OnGetMyPrivateKey`,
    `OnGetMyDeviceKey`, `GetSecretsList`, `OnGetSecretsList`, `DecryptSecret`,
    `AddSecretPassword` and `AddSecretNote` (both `AddSecretCommon` once their
    payload is built), `OnAddSecret`, and `Restart`, the app starting a fresh
    client after a crash.
  - The loop of `GetDecryptionKeyForSecret` is a `FoldLeft` of `PathStep`,
    which looks keys up and stores them with `KeyCacheFind`/`KeyCacheInsert`
    (`KeyCache::Find`/`Insert`). It
    keeps every early return ("Group not found", "Error decrypting group key",
    "Error reading group key"), and cache updates survive an error, as they do
    in the code.
  - Cryptography is abstract. A key is named by its owner (a user or a group),
    and a ciphertext is `[by, of]`. `Decrypts`, `IsKeyMaterial` and
    `DecryptPrivateKey` stand for `MitroPrivateKey`.
  - Responses are abstracted to what the handlers branch on:
    - success or failure;
    - whether the response has `encryptedPrivateKey` and `deviceKeyString`;
    - whether the password and the stored device-encrypted key are valid;
    - the groups map and the secrets of the list.
  - `ParseResponse` is an operator: a response is a success only if the HTTP
    request succeeded, the body parses and it has no `exceptionType`. The
    handlers take their `ok` from the outcomes it can give.
  - `GetSecret`/`OnGetSecret` are actions. A successful response hands the
    caller a fresh, undecoded Secret, which replaces its copy if it still
    holds that user's list.
  - The constant `DeviceKeyReadable` says whether keyczar can read a
    `deviceKeyString` the server sends.
- **`SecretDecoder.tla`** is the abstract contract of decoding (spec sections
  4.3 to 4.5), with no caches.
  - `Resolve` is the loop of `GetDecryptionKeyForSecret` without the
    KeyCache: a `FoldLeft` of `Step`.
  - Its state is the caller's view, mapped one to one:
    - `userKey`;
    - the list it holds;
    - which Secrets are decoded;
    - `lastDecode`, the secret of the latest decode and what `DecryptSecret`
      returned for it. Without it a decode that fails would change nothing
      the mapping sees, and would pass as a stutter.
  - `Decode(s)` decodes with a key in `MemoKeys` and returns true exactly
    when both the client and the critical data decrypt under it. When the uncached walk
    finds a key, that key is the only choice. Otherwise the choice is no key,
    or the key behind the last group's ciphertext, provided the user can
    derive it from the list's groups map (`Reach`).
  - Session and list changes are environment steps.
  - `MitroApiClient` instantiates it with a refinement mapping
    (`SD == INSTANCE SecretDecoder WITH opened <- ..., revealed <- ...`): a
    Secret is `opened` when its `clientData` is set and `revealed` when its
    `criticalData` is; the constants, `userKey`, `lastList` and
    `lastDecode` map by name. `MitroApiClient` sets `lastDecode` in
    `DecryptSecret` to the value the code returns.
    `ImplementsSecretDecoder == SD!Spec` is checked as a property.
- **`JsonText.tla`** is the reference for the writer. It defines, per RFC 8259
  and spec sections 4.1 and 6, which byte sequence is a JSON text denoting a
  Value:
  - map keys as strings;
  - NaN and ±Infinity as strings;
  - binary as padded base64 (RFC 4648).

  It is a recursive-descent recogniser written independently of the code.
- **`JsonWriter.tla`** models the write side of `TSimpleJSONProtocol`.
  - The state is `context`/`contexts`, which are the
    `TJSONContext`/`JSONPairContext`/`JSONListContext` objects with their
    `first_`/`colon_` flags, plus the output bytes and the counts returned.
  - Each public `write*` call is one disjunct of `Next`. The internal writers
    (`writeJSONString`, `writeJSONInteger`, `writeJSONDouble`,
    `writeJSONBase64`, the object and array writers) are operators on the
    protocol state.
  - Conversions are modelled byte for byte:
    - `kJSONCharTable`, `hexChar` and `\u00xx` escaping;
    - decimal digits;
    - the output of `lexical_cast` for doubles, including a sign-bit NaN;
    - Thrift's `base64_encode`, which writes `len+1` characters for a short group.
  - The caller is the Thrift-generated `write()`, modelled as the sequence of
    protocol calls it makes for a Value (`WriteCalls`).
  - `PostRequest` takes and resets the buffer, then the next Value is written
    through the same protocol object.
- **`JsonReader.tla`** models the read side of `TSimpleJSONProtocol`.
  - The state is:
    - the `parser_context_` stack of frames, each with a type (DICT, LIST,
      MAP_KEY, MAP_VALUE), the parsed value and an iterator position;
    - the document handed to `readStructBegin`;
    - the caller's pending reads, the Values it has obtained, and a status.
  - Every `read*` call is an operator translated from the code:
    - `nextValue` with its four cases;
    - `readStructBegin`, which parses only when the stack is empty;
    - `readSetBegin`, which pushes no frame and returns an uninitialised size;
    - the integer coercions and range checks.
  - The caller is the Thrift-generated `read()`, modelled from the spec as a
    task list. Each call it makes is an action. Unknown fields and fields
    whose value is null are skipped.
  - `ReadMessageBegin` is a processor reading a call: `readMessageBegin`,
    the arguments struct, then `readMessageEnd`. `readMessageBegin` throws
    `NOT_IMPLEMENTED` before it looks at the input, as spec section 4.2
    requires, so the queued `readMessageEnd` is never reached and has no
    action.
  - `NextDocument` reads the next response through the same protocol
    object. After an exception the stack is reset only if
    `ResetAfterThrow`, and after a crash always.
  - `base::JSONReader` is external. A document is the tree it would produce,
    under Chromium's rule that a number is an int when it has no fraction and
    fits a C `int`. TLC integers are 32-bit, so a number is `[m, e, den]`,
    meaning m·2^e/den, which represents ±2^31, 2^53 and 2^54 exactly.
  - Undefined behaviour is a crash status: a pop of an empty stack, or a
    read past the end.
  - Every `INVALID_DATA` throw builds its message with
    `getParserStackTrace`, which reads `dict_iter.key()` of the top frame.
    When that iterator is at its end (a bad value as the last entry of a
    map: `nextValue` has already advanced it), `key()` is undefined, and
    `Outcome` lets the read either crash or throw.
- **`JsonRoundTrip.tla`** composes the two halves (spec section 8). It
  extends `JsonWriter` and instantiates `JsonReader` as `RD`, using only its
  read operators over a parser stack.
  - `ParseJSON` stands for `base::JSONReader::Read` on the bytes the writer
    produces. It sorts dictionary entries by key as `DictionaryValue` does
    (`SortSeq` with `KeyLt`) and makes a number an int when it has no
    fraction and fits an `int`.
  - `ReadValue` is the generated `read()` of the Value's type: it calls the
    reader's operators and compares what it gets. Fields and map entries
    are matched by name or key in the order the document gives them, because
    `read()` assigns fields by name and a `std::map` has no order of its own.
  - `RoundTrippable` is the domain both halves support: no binary, sets,
    messages, non-string map keys or non-finite doubles. Each excluded kind
    is a finding or hazard of its own.
- **MC modules.** `MC_MitroApiClient.tla`, `MC_JsonWriter.tla` (which extends
  `JsonRoundTrip`) and `MC_JsonReader.tla` instantiate the modules.

## Runs

| Run | Config | Expect | What it shows |
|---|---|---|---|
| `mitro_session` | `MC_MitroApiClient.cfg` | pass | Three things hold across logins, failed responses, and list and GetSecret responses in any order. First, the caches stay sound (`CachesSound`). Second, a key path that was already resolved is served from the KeyCache (`RepeatResolutionHitsKeyCache`, an action property). Third, the session implements `SecretDecoder` (`ImplementsSecretDecoder`): a cached walk never changes the outcome of a walk that succeeds without the caches. This covers both what the decode opens and reveals and what `DecryptSecret` returns, so a cached walk that fails where the uncached one succeeds is a violation. |
| `secret_half_decoded` | `MC_MitroApiClient_SecretDecodeAllOrNothing.cfg` | violation | `DecryptSecret` sets `clientData` and then fails on critical data. The Secret is left half decoded. |
| `addsecret_null_group_key` | `MC_MitroApiClient_NoNullKeyInAddSecret.cfg` | violation | A failed list response resets the default group. `AddSecretCommon` then dereferences the null group key (`mitro_api.cc:624`). |
| `stale_login_response` | `MC_MitroApiClient_SessionKeyMatchesUser.cfg` | violation | The caller logs in as `ua`, then as `ub`, before the first response arrives. `ua`'s GetMyPrivateKey response then installs `ua`'s key in `ub`'s session. |
| `stale_list_response` | `MC_MitroApiClient_DefaultGroupOfSessionUser.cfg` | violation | `ua` logs in, gets its key and asks for its secrets list. The caller then logs in as `ub`, and `ub`'s key arrives. `ua`'s list response then arrives. `OnGetSecretsList` (bound with `Unretained` at `mitro_api.cc:366`, no session generation) makes `ua`'s personal group `g1` the default group of `ub`'s session (`mitro_api.cc:540`). `DecryptPrivateKey` of its key with `ub`'s key fails, so the group key is null (`mitro_api.cc:714-715`). |
| `null_key_in_login` | `MC_MitroApiClient_NoNullKeyInLogin.cfg` | violation | A Login with save gets its private-key response, which posts GetMyDeviceKey. Before the GetMyDeviceKey response arrives, `user_private_key_` becomes null, and `OnGetMyPrivateKeyDeviceKeyCallback` calls `ToJson()` on it (`mitro_api.cc:292`). Two orders make it null, and TLC's shortest trace may show either: a second Login (which logs out first), or the wrong-password response of a Login issued earlier, which resets the key to null. |
| `json_writer` | `MC_JsonWriter.cfg` | pass | For each request Value, written in turn through one protocol object, the buffer is exactly a JSON text denoting the Value (`OutputDenotesValue`), and the returned counts equal the bytes written (`WrittenCountsBytes`). Parsed and read back through a fresh reader, each round-trippable buffer gives the struct written, with no exception and an empty parser stack (`RoundTrip`). |
| `json_negative_nan` | `MC_JsonWriter_NegativeNaN.cfg` | violation | `lexical_cast` prints `-nan`, and the output is `{"d":-nan}`. |
| `json_reader` | `MC_JsonReader.cfg` | pass | Documents of every field kind, null and unknown fields, a call message, and documents that must fail are read one after another. The caller gets exactly the spec's Value or a failure (`ReadAsSpecified`). The parser stack mirrors the caller's nesting (`StackMirrorsNesting`). Under weak fairness every read ends (`DocumentTerminates`). |
| `json_read_stale_stack` | `MC_JsonReader_StaleStack.cfg` | violation | A nested field of the wrong type throws with two frames pushed. The next document, on the same protocol object, is read from the stale stack. |
| `json_read_set_no_frame` | `MC_JsonReader_SetNoFrame.cfg` | violation | `readSetBegin` pushes no frame. The set's elements are read from the enclosing struct. |
| `json_read_trace_at_end` | `MC_JsonReader_TraceAtEnd.cfg` | violation | A map whose last value has the wrong type: `readDouble` throws `INVALID_DATA`, and `getParserStackTrace` reads `dict_iter.key()` with the iterator at `end()` (`TSimpleJSONProtocol.cpp:605`), so the read may crash instead of throwing. |

`OutputDenotesValue` is stated only for encodings on which the code and
the spec agree. Short binaries and bool map keys are left out of it. See
"Divergences noted without a run".

Each property of a passing run has a mutant in `PROJECT.json`. A mutant is a
plausible bug of the mapped code, and TLC finds the property violated under
that mutant. Some examples:

- `Logout` forgetting `key_cache_.Clear()`;
- the key walk never calling `Insert`;
- `escapeNum()` asked before the separator is written;
- `decryption_key = next_decryption_key` done only after a KeyCache miss,
  so a cache hit leaves the walk on the parent's key (`ImplementsSecretDecoder`);
- `readI16` accepting 32768;
- `readMapEnd` without `pop()`;
- `readFieldEnd` without `Advance()`. This one breaks no invariant, only
  `DocumentTerminates`;
- `nextValue` not advancing the map iterator after a value, which only the
  composed `RoundTrip` catches.

## Bounds and why they are enough

- **`MC_MitroApiClient`**
  - The instance has two users, `ua` and `ub`.
  - There are three groups:
    - `g1` is `ua`'s personal group;
    - `g3` is `ub`'s personal group;
    - `g2` is shared. It is readable through `g1`, and junk through `g3`.
  - There are seven secrets. Their paths cover:
    - the empty path;
    - a one-step path and a two-step path;
    - a path through a group missing from the map;
    - a path that decrypts to junk;
    - a critical-data key that differs from the client-data key;
    - a path whose second step is cached by an earlier path.
  - `MaxInFlight = 4` (about 21,000 states). That lets two logins' key
    responses, a list response and a GetSecret or AddSecret response be
    pending at once and arrive in any order.
  - `SerializedLifecycle = TRUE` in the passing run: Login and Logout are
    issued only when no request is in flight. With `FALSE`, logins may overlap
    responses, and that is the setting of the `stale_login_response` and
    `stale_list_response` runs.
- **`MC_JsonWriter`**
  - Five Values:
    - a `SignedRequest` whose `request` field is itself JSON text with quotes;
    - a struct holding one field of each scalar type, including control bytes,
      backslash, `/` and byte 200 in strings, NaN, and a 3-byte and an empty
      binary;
    - a struct of containers, with map keys of type i32, i8, double,
      Infinity and string, and nested and empty containers;
    - a Thrift message;
    - the empty struct;
    - `RoundTripDoc`, read back by `RoundTrip`: fields out of key order, a
      key that is a prefix of another, a two-entry map of structs (one
      empty), a list of i64, every integer width at an edge (127, -300,
      2^31-1) and a string with a quote, `/` and a newline.

  Every write call and every branch of the context writers is taken. Because
  documents are written one after another, every start context the shared
  protocol object can be in is exercised.
- **`MC_JsonReader`**
  - The documents are:
    - a record with one field of each kind;
    - sparse and empty records;
    - an i16 of 40000 and an i8 of 2.5;
    - an i64 of 2^54;
    - text that is not JSON, and a root list;
    - a binary field;
    - a call message `["add",1,1,{...}]` read by a processor;
    - a nested struct of the wrong type;
    - a set before a failing field;
    - a map value of the wrong type, as the map's only entry and before a
      following entry (`MapValueWrongType`, `MapValueNotLast`); only the
      first reaches the undefined `key()`.
  - `CastOutcomes` holds the two results an out-of-range double-to-int cast
    gives on the targets: INT_MIN on x86, and saturation on ARM.
  - `UninitSizes = {0, 1}` covers the uninitialised size `readSetBegin`
    returns.
- **`SecretDecoder`** is checked on the `MC_MitroApiClient` instance. Secret
  `s2`, whose path `<<g2>>` skips `g1`, is the case that needs the second
  choice of `MemoKeys`. With the stricter contract, in which a decode always
  has the uncached outcome, TLC finds a violation: `s2` decodes after `s1`
  has cached `g2`'s key, and not before. Spec section 4.3 calls the caches
  pure memoization. That holds only for paths that are chains from the
  user's key.

## Fairness

`json_reader` uses `FairSpec == Spec /\ WF_vars(Next)`. The generated
`read()` runs synchronously on the thread that reads the response, so an
enabled read step is taken. `DocumentTerminates` says every document read
returns, throws or crashes.

No liveness is claimed of `MitroApiClient`. An HTTP response may never
arrive, because the client sets no timeout, so no fairness on response
delivery is justified.

## Not modelled

- The HTTP client, TLS, keyczar and `MitroPrivateKey`. They are external, and
  enter only through the abstractions above.
- Logging and `printTo`.
- The parsing of response bodies by `Json::Reader`. A response is abstracted
  to the fields the handler branches on.
- The `SIZE_LIMIT` throws of the writer. They need strings over 4 GiB.
- The payloads `AddSecretPassword`/`AddSecretNote` build; the model
  abstracts them. `GetDeviceID` is a lazily generated id that nothing
  compares.
- `base::JSONReader` beyond the bytes the writer produces (whitespace,
  exponents, `\u` escapes above 255 and duplicate keys never occur there).
  `readMessageEnd` is unreachable: `readMessageBegin` throws first. `readI32` of a double outside the int32 range is reachable by
  `ReadAsSpecified`, but no run checks such a document.
- `KeyCache::Insert`'s `CHECK` that the entry is new cannot fail in the
  model. The walk inserts only after a `Find` miss.
- The iOS view controller header. It declares outlets and UI actions
  only; there is no state change to model.
- Device and session bootstrap. `GenerateDeviceID`/`GetDeviceID`
  (`mitro_api.cc:52-71`) make a random id lazily. Spec line 83 gives device
  ids and keys to the excluded bootstrap/login collaborator, and no
  property compares ids.
- The constants and tables at the top of both files (URLs, `kJSONCharTable`
  comments, `kEscapeChars`). They enter the models through the operators
  that use them.
- The header `TSimpleJSONProtocol.hpp` beyond `ParserContext` and the
  members. The rest is declarations.

## Divergences noted without a run

- Spec section 7 says a failed key-hierarchy step must make no partial
  cache insert. `DecryptUsingCache` inserts the decrypted group-key bytes
  into `decryption_cache_` (`mitro_api.cc:734`) before
  `group_key->Read` can fail (`mitro_api.cc:779`). `PathStep` keeps that
  insert on its "Error reading group key" branch. `CachesSound` shows the
  leftover entry is the true plaintext of its ciphertext, so later decodes
  are not affected. The divergence is from the spec's wording only.
- `writeBool` ignores `escapeNum` (`TSimpleJSONProtocol.cpp:481`), so a map
  with bool keys is written `{"m":{true:1}}`, which is not JSON. Spec
  section 3 says bool keys are string-encoded.
- A binary whose length is not a multiple of 3 is base64-encoded without
  padding (`"TWE"` for `"Ma"`, `TSimpleJSONProtocol.cpp:314`). Spec section
  4.1 asks for padded base64.
- Maps with integer keys do not round trip, against spec section 8's
  `read(write(v)) == v`. The writer quotes an integer key (`{"1":"x"}`), and
  `nextValue` hands the key back as a string Value
  (`TSimpleJSONProtocol.cpp:580`), which `readIntegerValue` rejects (`:786-789`, with a TODO at `:781`). The code
  marks numeric keys as a TODO (`TSimpleJSONProtocol.hpp:64-67`). The
  spec's end-to-end document of section 8 types `a` as string to string,
  and that document is read correctly. `RoundTrippable` leaves integer keys
  out for this reason.
- A request is an `http_client_->Post` with a callback and no timeout
  (`mitro_api.cc:85`). A lost response leaves its caller waiting forever.
  The session model allows that: a response may stay in flight forever.
  No liveness property is stated, because nothing in the code would make
  it hold.

## Scope reached

Every state-changing operation of `MitroApiClient` and `TSimpleJSONProtocol`
is an action or an operator of a module. Two things are deliberately left
out:

- A corrupt personal group key (`mitro_api.cc:714`). The same null
  `user_group_private_key_` is reached by `stale_list_response`, and its
  dereference by `AddSecret` is shown by `addsecret_null_group_key`.
- Composing the session with the protocol. `MitroApiClient` abstracts the
  request bodies to their fields. The protocol's side of every request is
  covered by `json_writer`, which writes one Value after another through
  the one shared protocol object.
