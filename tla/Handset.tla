------------------------------ MODULE Handset ------------------------------
(***************************************************************************)
(* The session of the mobile app (mobile/src/api/client.ts, storage.ts,    *)
(* context/AuthContext.tsx, hooks/usePushRegistration.ts) on one handset,  *)
(* with what the server keeps of it: the token pairs it has minted and the *)
(* row of the handset's push token.                                        *)
(*                                                                         *)
(* The app has one thread, and a task gives way at every await. The boot,  *)
(* a sign-in, a sign-out and the requests of the screens run interleaved;  *)
(* every request passes the interceptors of the client, which refresh the  *)
(* access token when its stamp has run out and once more when the server   *)
(* refuses it. The tasks wait for one refresh together. Answers get lost,  *)
(* sessions are ended elsewhere, the app is killed.                        *)
(***************************************************************************)
EXTENDS Naturals, Sequences

CONSTANTS
  Users,
  MaxPairs,    \* bound on the token pairs minted
  MaxFaults,   \* bound on lost answers, sessions ended elsewhere and restarts
  Null

ASSUME HandsetAssumption ==
  MaxPairs \in Nat \ {0} /\ MaxFaults \in Nat /\ Null \notin Users \cup Nat

Boot == "boot"
Entry == "entry"
Exit == "exit"
Push == "push"
Profile == "profile"
Callers == {Boot, Entry, Exit, Push, Profile}

\* A pair is an access token and a refresh token minted together.
Pairs == 1..MaxPairs
Purposes == {"me", "register", "unregister-all", "login", "logout"}
Waiting == {"waits first", "waits again"}
Answered == {"ok", "refused", "lost"}

\* A call of http, with the token in its header.
Call == [at: {"idle", "sent"} \cup Waiting \cup Answered, purpose: Purposes,
         token: Pairs \cup {Null}, retried: BOOLEAN]

VARIABLES
  owner,       \* the user of each pair minted
  live,        \* the pairs whose refresh token the server redeems
  expired,     \* the pairs whose access token has run out
  device,      \* the DeviceToken row of this handset
  store,       \* secure storage and AsyncStorage
  status,      \* AuthContext: status ...
  shown,       \* ... and user
  refresh,     \* refreshInFlight
  call,        \* the request each task is in
  launch,        \* where the boot is, and the cached user it read
  entry,       \* where the sign-in is, for whom, and the pair it was answered
  exit,        \* where the sign-out is, of whom, and the refresh token it read
  faults,      \* those still to come
  left,        \* history: the user whose sign-out came last, if no sign-in followed
  crossed,     \* history: the session was changed under a task that works on it
  unheard      \* history: that sign-out did not, or not alone, settle the device row

server == <<owner, live, expired, device>>
screen == <<status, shown>>
tasks == <<launch, entry, exit>>
history == <<left, crossed, unheard>>
phone == <<owner, live, expired, device, store, status, shown, refresh, call,
           launch, entry, exit, faults, left, crossed, unheard>>

issued == 1..Len(owner)
Empty == [access |-> Null, refresh |-> Null, expiry |-> Null, user |-> Null]
NoCall == [at |-> "idle", purpose |-> "me", token |-> Null, retried |-> FALSE]
NoRefresh == [at |-> "none", token |-> Null, got |-> Null]
Away == [at |-> "idle", user |-> Null, pair |-> Null]

\* A fresh install, or one that was signed in when it was last closed.
HandsetInit ==
  /\ \/ owner = <<>> /\ store = Empty
     \/ \E u \in Users :
          owner = <<u>> /\ store = [access |-> 1, refresh |-> 1, expiry |-> 1, user |-> u]
  /\ live = issued
  /\ expired = {}
  /\ device = [user |-> Null, active |-> FALSE]
  /\ status = "loading" /\ shown = Null
  /\ refresh = NoRefresh
  /\ call = [c \in Callers |-> NoCall]
  /\ launch = [Away EXCEPT !.at = "reads"] /\ entry = Away /\ exit = Away
  /\ faults = MaxFaults
  /\ left = Null /\ crossed = FALSE /\ unheard = FALSE

-----------------------------------------------------------------------------
(* The client: the interceptors and the shared refresh. What is read of the *)
(* store is one step with what is done about it; what is written is not.    *)

\* supersedeBoot: the boot still reads its items, and decides nothing any more; once it has
\* decided, it is not stopped.
Supersede ==
  launch' = CASE launch.at = "reads" -> Away
            [] launch.at = "asks" -> [launch EXCEPT !.at = "lets go"]
            [] OTHER -> launch

\* A refresh writes what it was answered over whatever the store holds by then.
Refreshing == refresh.at \in {"posted", "failed", "granted", "stored"}

\* The tasks that will write the user of the session they began under.
Rechecking == call[Profile].at # "idle"

Stale == store.expiry \in expired

\* What the promise resolves to becomes the header of a request that waited to be sent; one
\* that was refused is sent again, or stays refused.
Resume(k, got) ==
  CASE k.at = "waits first" -> [k EXCEPT !.at = "sent", !.token = got]
    [] k.at = "waits again" -> IF got = Null THEN [k EXCEPT !.at = "refused"]
                                             ELSE [k EXCEPT !.at = "sent", !.token = got]
    [] OTHER -> k

Resolve(got) == call' = [c \in Callers |-> Resume(call[c], got)]

Post == [NoRefresh EXCEPT !.at = "posted", !.token = store.refresh]

\* Fault: every caller starts a refresh of its own.
JoinAnew(c, k) ==
  IF store.refresh # Null
  THEN call' = [call EXCEPT ![c] = k] /\ refresh' = Post
  ELSE call' = [call EXCEPT ![c] = Resume(k, Null)] /\ refresh' = [NoRefresh EXCEPT !.at = "void"]

\* refreshAccessToken: the promise under way, or a new one. The refresh token is read before the
\* try: without one the promise resolves to null, and refreshInFlight keeps it for good.
Join(c, k) ==
  CASE refresh.at = "none" /\ store.refresh # Null ->
         call' = [call EXCEPT ![c] = k] /\ refresh' = Post
    [] refresh.at = "void" \/ (refresh.at = "none" /\ store.refresh = Null) ->
         /\ call' = [call EXCEPT ![c] = Resume(k, Null)]
         /\ refresh' = [NoRefresh EXCEPT !.at = "void"]
    [] OTHER -> call' = [call EXCEPT ![c] = k] /\ UNCHANGED refresh

\* The request interceptor.
Send(c, purpose) ==
  LET k == [NoCall EXCEPT !.purpose = purpose] IN
  IF Stale
  THEN Join(c, [k EXCEPT !.at = "waits first"])
  ELSE call' = [call EXCEPT ![c] = [k EXCEPT !.at = "sent", !.token = store.access]] /\ UNCHANGED refresh

Mint(u) ==
  /\ Len(owner) < MaxPairs
  /\ owner' = Append(owner, u)

\* TokenRefreshView: the token is retired for a new pair.
Redeem ==
  /\ refresh.at = "posted" /\ refresh.token \in live
  /\ Mint(owner[refresh.token])
  /\ live' = (live \ {refresh.token}) \cup {Len(owner')}
  /\ refresh' = [refresh EXCEPT !.at = "granted", !.got = Len(owner')]
  /\ UNCHANGED <<expired, device, store, screen, call, tasks, faults, history>>

RefuseRefresh ==
  /\ refresh.at = "posted" /\ refresh.token \notin live
  /\ refresh' = [refresh EXCEPT !.at = "failed"]
  /\ UNCHANGED <<server, store, screen, call, tasks, faults, history>>

\* The request or the answer is lost.
LoseRefresh ==
  /\ refresh.at \in {"posted", "granted"}
  /\ faults > 0 /\ faults' = faults - 1
  /\ refresh' = [refresh EXCEPT !.at = "failed"]
  /\ UNCHANGED <<server, store, screen, call, tasks, history>>

\* tokens.rotate: the refresh token first ...
StoreRefresh ==
  /\ refresh.at = "granted"
  /\ store' = [store EXCEPT !.refresh = refresh.got]
  /\ refresh' = [refresh EXCEPT !.at = "stored"]
  /\ UNCHANGED <<server, screen, call, tasks, faults, history>>

\* ... then the access token and its stamp.
FinishRefresh ==
  /\ refresh.at = "stored"
  /\ store' = [store EXCEPT !.access = refresh.got, !.expiry = refresh.got]
  /\ refresh' = NoRefresh
  /\ Resolve(refresh.got)
  /\ UNCHANGED <<server, screen, tasks, faults, history>>

\* Any failure tears the session down; the cached user stays.
FailRefresh ==
  /\ refresh.at = "failed"
  /\ store' = [Empty EXCEPT !.user = store.user]
  /\ status' = "signed-out" /\ shown' = Null /\ Supersede
  /\ refresh' = NoRefresh
  /\ Resolve(Null)
  /\ UNCHANGED <<server, entry, exit, faults, history>>

RefreshStep == Redeem \/ RefuseRefresh \/ StoreRefresh \/ FinishRefresh \/ FailRefresh

-----------------------------------------------------------------------------
(* The server.                                                              *)

Authorised(k) == k.token # Null /\ k.token \notin expired

\* update_or_create by the push token: whoever registers it takes it over.
Register(u) == device' = [user |-> u, active |-> TRUE] /\ UNCHANGED live

\* Fault: the rows the sender has retired before are the ones looked for.
UnregisterRetired(u) ==
  /\ device' = IF device.user = u /\ ~device.active THEN [device EXCEPT !.active = FALSE] ELSE device
  /\ UNCHANGED live

\* unregister_all_devices: every active row of the sender.
UnregisterAll(u) ==
  /\ device' = IF device.user = u /\ device.active THEN [device EXCEPT !.active = FALSE] ELSE device
  /\ UNCHANGED live

\* Logout: the refresh token in the body is blacklisted, if there is one.
Retire == live' = live \ {exit.pair} /\ UNCHANGED device

\* What a request does on the server once it is let in.
Effect(k) ==
  LET u == owner[k.token] IN
  \/ k.purpose = "me" /\ UNCHANGED <<live, device>>
  \/ k.purpose = "register" /\ Register(u)
  \/ k.purpose = "unregister-all" /\ UnregisterAll(u)
  \/ k.purpose = "logout" /\ Retire

Sent(c) == call[c].at = "sent" /\ call[c].purpose # "login"

Serve(c) ==
  /\ Sent(c) /\ Authorised(call[c])
  /\ Effect(call[c])
  /\ call' = [call EXCEPT ![c].at = "ok", ![c].retried = FALSE]
  /\ UNCHANGED <<owner, expired, store, screen, refresh, tasks, faults, history>>

\* The response interceptor on a 401: refresh and retry, once. A second one is final.
Refuse(c) ==
  /\ Sent(c) /\ ~Authorised(call[c])
  /\ IF call[c].retried
     THEN call' = [call EXCEPT ![c] = [NoCall EXCEPT !.at = "refused", !.purpose = call[c].purpose]] /\ UNCHANGED refresh
     ELSE Join(c, [call[c] EXCEPT !.at = "waits again", !.token = Null, !.retried = TRUE])
  /\ UNCHANGED <<server, store, screen, tasks, faults, history>>

\* No answer arrives, whether the server did its part or not.
Lose(c) ==
  /\ Sent(c)
  /\ faults > 0 /\ faults' = faults - 1
  /\ \/ UNCHANGED <<live, device>>
     \/ Authorised(call[c]) /\ Effect(call[c])
  /\ call' = [call EXCEPT ![c] = [NoCall EXCEPT !.at = "lost", !.purpose = call[c].purpose]]
  /\ UNCHANGED <<owner, expired, store, screen, refresh, tasks, history>>

\* The access token in the store runs out, for the client a minute before it does for the
\* server, which is not told apart here. A request that is being retried is answered before the
\* token it is retried with expires.
Expire ==
  /\ store.access # Null
  /\ \A c \in Callers : ~call[c].retried
  /\ expired' = expired \cup {store.access}
  /\ UNCHANGED <<owner, live, device, store, screen, refresh, call, tasks, faults, history>>

\* A refresh token runs out, or is retired with the account's password.
EndElsewhere(n) ==
  /\ n \in live
  /\ faults > 0 /\ faults' = faults - 1
  /\ live' = live \ {n}
  /\ UNCHANGED <<owner, expired, device, store, screen, refresh, call, tasks, history>>

-----------------------------------------------------------------------------
(* The boot.                                                                *)

\* The cached user and the refresh token: without one of them there is no session.
ReadSession ==
  /\ launch.at = "reads"
  /\ \/ /\ store.refresh = Null \/ store.user = Null
        /\ status' = "signed-out" /\ launch' = Away /\ UNCHANGED <<call, refresh>>
     \/ /\ store.refresh # Null /\ store.user # Null
        /\ launch' = [launch EXCEPT !.at = "asks", !.user = store.user]
        /\ Send(Boot, "me") /\ UNCHANGED status
  /\ UNCHANGED <<server, store, shown, entry, exit, faults, history>>

Returned(c) == call[c].at \in Answered

Hangup(c) == call' = [call EXCEPT ![c] = NoCall]

\* Fault: the boot decides whatever happened meanwhile.
DecideAnyway ==
  /\ launch.at \in {"asks", "lets go"} /\ Returned(Boot)
  /\ Hangup(Boot)
  /\ \/ /\ call[Boot].at = "ok"
        /\ shown' = owner[call[Boot].token]
        /\ launch' = [launch EXCEPT !.at = "shows", !.user = shown']
        /\ UNCHANGED <<store, status>>
     \/ /\ call[Boot].at = "refused"
        /\ store' = Empty /\ status' = "signed-out" /\ launch' = Away /\ UNCHANGED shown
     \/ /\ call[Boot].at = "lost"
        /\ shown' = launch.user /\ status' = "signed-in" /\ launch' = Away /\ UNCHANGED store
  /\ UNCHANGED <<server, refresh, entry, exit, faults, history>>

\* The answer to /auth/me/: the session is good, or is over, or the network is away and the
\* cached user is shown. Nothing is decided once the user has taken over.
Decide ==
  /\ launch.at \in {"asks", "lets go"} /\ Returned(Boot)
  /\ Hangup(Boot)
  /\ \/ /\ launch.at = "lets go"
        /\ launch' = Away /\ UNCHANGED <<store, status, shown>>
     \/ /\ launch.at = "asks" /\ call[Boot].at = "ok"
        /\ shown' = owner[call[Boot].token]
        /\ launch' = [launch EXCEPT !.at = "shows", !.user = shown']
        /\ UNCHANGED <<store, status>>
     \/ /\ launch.at = "asks" /\ call[Boot].at = "refused"
        /\ store' = Empty /\ status' = "signed-out" /\ launch' = Away /\ UNCHANGED shown
     \/ /\ launch.at = "asks" /\ call[Boot].at = "lost"
        /\ shown' = launch.user /\ status' = "signed-in" /\ launch' = Away /\ UNCHANGED store
  /\ UNCHANGED <<server, refresh, entry, exit, faults, history>>

\* The user is cached, and then the app opens: here nobody asks who has taken over.
OpenApp ==
  /\ launch.at = "shows"
  /\ store' = [store EXCEPT !.user = launch.user]
  /\ status' = "signed-in" /\ launch' = Away
  /\ UNCHANGED <<server, shown, refresh, call, entry, exit, faults, history>>

-----------------------------------------------------------------------------
(* Signing in and out.                                                      *)

\* The login screen is where a user without a session is.
SignIn(u) ==
  /\ entry.at = "idle" /\ status # "signed-in"
  /\ Supersede
  /\ entry' = [at |-> "asks", user |-> u, pair |-> Null]
  /\ Send(Entry, "login")
  /\ crossed' = (crossed \/ launch.at = "shows")
  /\ UNCHANGED <<server, store, status, shown, exit, faults, left, unheard>>

\* The server finds the password good and mints a pair.
Login ==
  /\ call[Entry].at = "sent"
  /\ Mint(entry.user)
  /\ live' = live \cup {Len(owner')}
  /\ entry' = [entry EXCEPT !.at = "stores", !.pair = Len(owner')]
  /\ Hangup(Entry)
  /\ UNCHANGED <<expired, device, store, screen, refresh, launch, exit, faults, history>>

\* A wrong password, or no answer: an error on the login screen.
FailLogin ==
  /\ call[Entry].at = "sent"
  /\ entry' = Away /\ Hangup(Entry)
  /\ UNCHANGED <<server, store, screen, refresh, launch, exit, faults, history>>

\* tokens.set
StoreTokens ==
  /\ entry.at = "stores"
  /\ store' = [store EXCEPT !.access = entry.pair, !.refresh = entry.pair]
  /\ entry' = [entry EXCEPT !.at = "caches"]
  /\ crossed' = (crossed \/ Refreshing \/ Rechecking \/ exit.at # "idle")
  /\ left' = Null
  /\ unheard' = (unheard /\ exit.at # "idle")
  /\ UNCHANGED <<server, screen, refresh, call, launch, exit, faults>>

\* accessExpiry.set and sessionStore.set
CacheUser ==
  /\ entry.at = "caches"
  /\ store' = [store EXCEPT !.expiry = entry.pair, !.user = entry.user]
  /\ entry' = [entry EXCEPT !.at = "checks"]
  /\ UNCHANGED <<server, screen, refresh, call, launch, exit, faults, history>>

\* The token is read back: what another task has cleared or replaced is an error.
ReadBack ==
  /\ entry.at = "checks"
  /\ IF store.access = entry.pair
     THEN shown' = entry.user /\ status' = "signed-in"
     ELSE UNCHANGED <<shown, status>>
  /\ entry' = Away
  /\ UNCHANGED <<server, store, refresh, call, launch, exit, faults, history>>

Registering == call[Push].at # "idle"

SignOut ==
  /\ exit.at = "idle" /\ status = "signed-in"
  /\ Supersede
  /\ exit' = [at |-> "silences", user |-> shown, pair |-> Null]
  /\ Send(Exit, "unregister-all")
  /\ unheard' = Registering
  /\ UNCHANGED <<server, store, status, shown, entry, faults, left, crossed>>

\* Whatever came of it, the refresh token is read and sent with the logout.
SendLogout ==
  /\ exit.at = "silences" /\ Returned(Exit)
  /\ exit' = [exit EXCEPT !.at = "logs out", !.pair = store.refresh]
  /\ Send(Exit, "logout")
  /\ unheard' = (unheard \/ call[Exit].at # "ok")
  /\ UNCHANGED <<server, store, screen, launch, entry, faults, left, crossed>>

\* Fault: the refresh token stays.
LeaveRefresh ==
  /\ exit.at = "logs out" /\ Returned(Exit)
  /\ store' = [Empty EXCEPT !.refresh = store.refresh]
  /\ status' = "signed-out" /\ shown' = Null
  /\ exit' = Away /\ Hangup(Exit)
  /\ left' = exit.user
  /\ crossed' = (crossed \/ Refreshing \/ Rechecking \/ entry.at # "idle")
  /\ UNCHANGED <<server, refresh, launch, entry, faults, unheard>>

\* clearSession, whatever came of the logout and whoever has signed in meanwhile.
Leave ==
  /\ exit.at = "logs out" /\ Returned(Exit)
  /\ store' = Empty
  /\ status' = "signed-out" /\ shown' = Null
  /\ exit' = Away /\ Hangup(Exit)
  /\ left' = exit.user
  /\ crossed' = (crossed \/ Refreshing \/ Rechecking \/ entry.at # "idle")
  /\ UNCHANGED <<server, refresh, launch, entry, faults, unheard>>

-----------------------------------------------------------------------------
(* The requests of the screens, and the end of the app.                     *)

\* register(): MoreScreen binds the push token to the account when it is shown.
SendRegistration ==
  /\ call[Push].at = "idle" /\ status = "signed-in"
  /\ Send(Push, "register")
  /\ unheard' = (unheard \/ exit.at # "idle")
  /\ UNCHANGED <<server, store, screen, tasks, faults, left, crossed>>

EndRegistration ==
  /\ Returned(Push)
  /\ Hangup(Push)
  /\ UNCHANGED <<server, store, screen, refresh, tasks, faults, history>>

\* refreshUser(): the profile screen, after an edit.
SendRecheck ==
  /\ call[Profile].at = "idle" /\ status = "signed-in"
  /\ Send(Profile, "me")
  /\ UNCHANGED <<server, store, screen, tasks, faults, history>>

EndRecheck ==
  /\ Returned(Profile)
  /\ Hangup(Profile)
  /\ \/ /\ call[Profile].at = "ok"
        /\ shown' = owner[call[Profile].token] /\ store' = [store EXCEPT !.user = shown']
        /\ UNCHANGED status
     \/ /\ call[Profile].at = "refused"
        /\ store' = Empty /\ shown' = Null /\ status' = "signed-out"
     \/ call[Profile].at = "lost" /\ UNCHANGED <<store, shown, status>>
  /\ UNCHANGED <<server, refresh, tasks, faults, history>>

\* The app is killed and opened again: only what is stored is left.
Restart ==
  /\ faults > 0 /\ faults' = faults - 1
  /\ status' = "loading" /\ shown' = Null
  /\ refresh' = NoRefresh
  /\ call' = [c \in Callers |-> NoCall]
  /\ launch' = [Away EXCEPT !.at = "reads"] /\ entry' = Away /\ exit' = Away
  /\ crossed' = (crossed \/ entry.at = "caches")
  /\ UNCHANGED <<server, store, left, unheard>>

HandsetNext ==
  \/ RefreshStep \/ LoseRefresh
  \/ \E c \in Callers : Serve(c) \/ Refuse(c) \/ Lose(c)
  \/ Expire
  \/ \E n \in issued : EndElsewhere(n)
  \/ ReadSession \/ Decide \/ OpenApp
  \/ \E u \in Users : SignIn(u)
  \/ Login \/ FailLogin \/ StoreTokens \/ CacheUser \/ ReadBack
  \/ SignOut \/ SendLogout \/ Leave
  \/ SendRegistration \/ EndRegistration \/ SendRecheck \/ EndRecheck
  \/ Restart

HandsetSpec == HandsetInit /\ [][HandsetNext]_phone

-----------------------------------------------------------------------------
\* Types of the state; and no request waits for a refresh that is over.
HandsetTypeOK ==
  /\ owner \in Seq(Users) /\ Len(owner) <= MaxPairs
  /\ live \cup expired \subseteq issued
  /\ device \in [user: Users \cup {Null}, active: BOOLEAN]
  /\ store \in [access: issued \cup {Null}, refresh: issued \cup {Null},
                expiry: issued \cup {Null}, user: Users \cup {Null}]
  /\ status \in {"loading", "signed-out", "signed-in"} /\ shown \in Users \cup {Null}
  /\ refresh \in [at: {"none", "posted", "failed", "granted", "stored", "void"},
                  token: issued \cup {Null}, got: issued \cup {Null}]
  /\ call \in [Callers -> Call]
  /\ (\E c \in Callers : call[c].at \in Waiting) => Refreshing
  /\ launch \in [at: {"idle", "reads", "asks", "lets go", "shows"}, user: Users \cup {Null}, pair: {Null}]
  /\ entry \in [at: {"idle", "asks", "stores", "caches", "checks"}, user: Users \cup {Null},
                pair: issued \cup {Null}]
  /\ exit \in [at: {"idle", "silences", "logs out"}, user: Users \cup {Null}, pair: issued \cup {Null}]
  /\ faults \in 0..MaxFaults /\ left \in Users \cup {Null}
  /\ {crossed, unheard} \subseteq BOOLEAN

\* AuthContext.tsx:70 "so a sign-in that lands mid-boot is not clobbered by a slower boot pass":
\* an app that is open shows the user whose tokens it holds, unless a refresh, a re-check or a
\* sign-out of the session before was still under way when the session changed.
ShownIsStored ==
  status = "signed-in" /\ ~crossed /\ entry.at = "idle" =>
    store.refresh # Null /\ owner[store.refresh] = shown

\* A state the handset can be in, with the tokens of the user it shows.
HandsetIntegrity == HandsetTypeOK /\ ShownIsStored

\* After a sign-out nothing but a sign-in fills the store or opens the app, not even a
\* restart, unless the session has changed under a task that works on it (crossed): a refresh
\* that is answered after clearSession writes its tokens back (client.ts:153).
SignOutIsFinal == left # Null /\ ~crossed => store.refresh = Null /\ status # "signed-in"

\* AuthContext.tsx:219 "Stop this handset delivering the outgoing user's alerts before dropping
\* the tokens": it does, unless the answer was lost, the session was dead already, a registration
\* or another sign-in was under way beside it (unheard), or the session has changed under a task
\* that works on it (crossed).
SilentAfterSignOut == left # Null /\ ~unheard /\ ~crossed => ~(device.active /\ device.user = left)

ThrownOut == status = "signed-in" /\ status' = "signed-out" /\ exit' = exit

\* client.ts:11 "de-duplicating concurrent refreshes": an app that is not signing out never
\* loses its session to its own refreshes, however many requests find their token expired
\* together, as long as no answer is lost, no session ended elsewhere, the app not restarted and
\* the session not changed under a task (crossed). It does once a refresh has found no token.
RefreshKeepsSession ==
  [][ThrownOut => exit.at # "idle" \/ faults < MaxFaults \/ crossed \/ refresh.at = "void"]_phone

\* client.ts:9 "refreshing a stale access token before the request rather than after a visible
\* 401, and transparently retrying once if a 401 slips through": the same without the exception.
StaleTokensAreRefreshed ==
  [][ThrownOut => exit.at # "idle" \/ faults < MaxFaults \/ crossed]_phone
=============================================================================
