----------------------------- MODULE NetConfig -----------------------------
(***************************************************************************)
(* The WiFi credentials: the handlers that set and tell them               *)
(* (settings_net_post_handler, settings_net_get_handler in http_server.c)  *)
(* and their place in non-volatile storage (nvs_utils.c).                  *)
(*                                                                         *)
(* A request body comes over TCP in pieces of any size, with pauses, and   *)
(* is gathered in a buffer of BufferSize bytes.  Saving is several calls   *)
(* of the storage, each of which may fail; the power may fail between any  *)
(* two of them.  The storage keeps the old entry until the new one is      *)
(* written.  The handlers run in the HTTP server's task, one at a time.    *)
(*                                                                         *)
(* The fields are copied to network_data without a look at their length.   *)
(* What a long one does to network_data is modelled, not what it may do to *)
(* the memory after it, except that the device may stop there (Restart).   *)
(***************************************************************************)
EXTENDS Integers

CONSTANTS Credentials,  \* pairs of an SSID and a password
          Overlong,     \* those of which one does not fit its field
          Mangled,      \* what network_data holds after one of them was copied
          None,         \* no credentials
          BufferSize,   \* sizeof(buf)
          MaxLength     \* bound of the length of a body

ASSUME NetConfigAssumption ==
  /\ Overlong \subseteq Credentials
  /\ Mangled \notin Credentials
  /\ None \notin Credentials \union {Mangled}
  /\ BufferSize \in Nat \ {0}
  /\ MaxLength \in Nat

VARIABLES
  nvs,      \* the entry in non-volatile storage
  ram,      \* network_data
  pc,       \* where the POST handler is; "idle" between requests
  body,     \* the request body
  left,     \* bytes of it still to come
  total,    \* total_length
  ret,      \* what httpd_req_recv returned
  reply,    \* what the browser was last told
  told      \* history: the credentials last acknowledged, unless replaced since

requestVars == <<pc, body, left, total, ret>>
vars == <<nvs, ram, requestVars, reply, told>>

TIMEOUT == -3      \* HTTPD_SOCK_ERR_TIMEOUT

\* What the body says, its length, the bytes up to the end of the object it
\* begins with, and whether that is an object with both fields.
Body == {b \in [says : Credentials, length : 1 .. MaxLength,
                object : 1 .. MaxLength, valid : BOOLEAN] : b.object <= b.length}

Init == /\ nvs = None /\ ram = None
        /\ pc = "idle"
        /\ body \in Body
        /\ left = 0 /\ total = 0 /\ ret = 0
        /\ reply = "none" /\ told = None
-----------------------------------------------------------------------------
(***************************************************************************)
(* POST: the body is received, parsed, saved and acknowledged.             *)
(***************************************************************************)
Post(b) ==
  /\ pc = "idle"
  /\ pc' = "receive" /\ body' = b /\ left' = b.length /\ total' = 0
  /\ reply' = "none"
  /\ UNCHANGED <<nvs, ram, ret, told>>

\* Mutant: no room is kept for the terminating zero.
RoomToTheEnd == BufferSize - total
Room == BufferSize - total - 1

\* As much as has come, as is left of the body and as there is room for; zero
\* bytes also when the browser has closed the connection.
Receive ==
  /\ pc = "receive"
  /\ \E n \in 0 .. MaxLength :
       /\ n <= left /\ n <= Room
       /\ ret' = n /\ left' = left - n /\ total' = total + n
  /\ pc' = "test"
  /\ UNCHANGED <<nvs, ram, body, reply, told>>

\* continue: the loop's condition is next.
ReceiveTimeout ==
  /\ pc = "receive" /\ left > 0 /\ Room > 0
  /\ ret' = TIMEOUT
  /\ pc' = "test"
  /\ UNCHANGED <<nvs, ram, body, left, total, reply, told>>

\* The connection is gone; the handler returns.
ReceiveError ==
  /\ pc = "receive" /\ left > 0 /\ Room > 0
  /\ pc' = "idle"
  /\ UNCHANGED <<nvs, ram, body, left, total, ret, reply, told>>

\* The int is converted to size_t, of w bits: a negative one becomes a large one.
Unsigned(n) == n % 2^16

\* Mutant: the condition leaves out the room for the terminating zero.
GoesOnWhenFull == Unsigned(ret) >= BufferSize - total - 1
\* while (ret >= sizeof(buf) - total_length)
GoesOn == Unsigned(ret) >= BufferSize - total

Test ==
  /\ pc = "test"
  /\ pc' = IF GoesOn THEN "receive" ELSE "parse"
  /\ UNCHANGED <<nvs, ram, body, left, total, ret, reply, told>>

\* Mutant: whether both fields are there is not looked at.
ParsesAnything == total > 0
\* cJSON_Parse and the tests of the fields.  The beginning of an object is not
\* an object; what follows a whole one, or is missing after it, is not looked at.
Parses == body.valid /\ total >= body.object

Refuse ==
  /\ pc = "parse" /\ ~Parses
  /\ reply' = "bad request"
  /\ pc' = "idle"
  /\ UNCHANGED <<nvs, ram, body, left, total, ret, told>>

\* What network_data holds after two strcpy into char[33] and char[65]: of a
\* string without room for its end, the next field or nothing ends it.
Kept(c) == IF c \in Overlong THEN Mangled ELSE c

Copy ==
  /\ pc = "parse" /\ Parses
  /\ ram' = Kept(body.says)
  /\ pc' = "save"
  /\ UNCHANGED <<nvs, body, left, total, ret, reply, told>>

\* Mutant: a failure of the storage is not looked at.
ReplyAnyway(ok) == "set"
\* What is sent for the result of nvs_save_network_data.
Reply(ok) == IF ok THEN "set" ELSE "server error"

\* nvs_open or nvs_set_blob fails.
SaveFails ==
  /\ pc = "save"
  /\ reply' = Reply(FALSE)
  /\ told' = IF reply' = "set" THEN body.says ELSE told
  /\ pc' = "idle"
  /\ UNCHANGED <<nvs, ram, body, left, total, ret>>

SetBlob ==
  /\ pc = "save"
  /\ nvs' = ram
  /\ told' = None
  /\ pc' = "commit"
  /\ UNCHANGED <<ram, body, left, total, ret, reply>>

\* nvs_commit, which may fail after the entry was written.
Commit ==
  /\ pc = "commit"
  /\ \E ok \in BOOLEAN : reply' = Reply(ok)
  /\ told' = IF reply' = "set" THEN body.says ELSE told
  /\ pc' = "idle"
  /\ UNCHANGED <<nvs, ram, body, left, total, ret>>
-----------------------------------------------------------------------------
(***************************************************************************)
(* GET and the start of the device.                                        *)
(***************************************************************************)

\* The entry is loaded into network_data and told from there.
Answer == nvs

Get ==
  /\ pc = "idle"
  /\ \/ /\ Answer # None
        /\ ram' = Answer /\ reply' = Answer
     \/ /\ Answer = None
        /\ reply' = "null" /\ UNCHANGED ram
     \/ /\ reply' = "server error" /\ UNCHANGED ram
  /\ UNCHANGED <<nvs, requestVars, told>>

\* The power fails, or the device restarts after an update.  nvs_init_storage
\* erases a storage it cannot use, or whose format is newer.
Restart ==
  /\ \/ UNCHANGED <<nvs, told>>
     \/ nvs' = None /\ told' = None
  /\ ram' = None
  /\ pc' = "idle" /\ left' = 0 /\ total' = 0 /\ ret' = 0
  /\ reply' = "none"
  /\ UNCHANGED body

Handler == \/ Receive \/ ReceiveTimeout \/ ReceiveError \/ Test
           \/ Refuse \/ Copy \/ SaveFails \/ SetBlob \/ Commit

Next == \/ \E b \in Body : Post(b)
        \/ Handler
        \/ Get
        \/ Restart

Spec == Init /\ [][Next]_vars

\* The task runs, and a browser that has begun to send goes on or hangs up: the
\* handler itself waits through any number of timeouts.
FairSpec == Spec /\ WF_vars(Handler) /\ SF_vars(Receive \/ ReceiveError)
-----------------------------------------------------------------------------
\* Every variable has its type, and the terminating zero is within the buffer.
TypeOK == /\ nvs \in Credentials \union {Mangled, None}
          /\ ram \in Credentials \union {Mangled, None}
          /\ pc \in {"idle", "receive", "test", "parse", "save", "commit"}
          /\ body \in Body
          /\ left \in 0 .. MaxLength
          /\ total \in 0 .. BufferSize - 1
          /\ ret \in {TIMEOUT} \union 0 .. MaxLength
          /\ reply \in {"none", "set", "bad request", "server error", "null", Mangled}
                       \union Credentials
          /\ told \in Credentials \union {None}

\* What the user was told is set stays set, if it fits its fields: later requests
\* that are cut short, wrong or fail to be saved leave it alone, and so does a
\* loss of power.
AcknowledgedIsSaved == told # None /\ told \notin Overlong => nvs = told

\* Only a right object of which every byte has come ever reaches the storage, and
\* as it was sent, if it fits its fields.
OnlyWholeObjectsAreSaved ==
  [][nvs' \notin {nvs, None} => /\ body.valid /\ body.length - left >= body.object
                                /\ body.says \notin Overlong => nvs' = body.says]_vars

\* A request comes to its end as soon as the browser has sent it or hung up.
RequestEnds == pc # "idle" ~> pc = "idle"

\* http_server.c:524 "Receive full request body": what is parsed has its object
\* whole, unless the buffer is full or the browser has closed the connection.
FullBodyReceived ==
  pc = "parse" /\ body.valid =>
    total >= body.object \/ total = BufferSize - 1 \/ ret = 0
=============================================================================
