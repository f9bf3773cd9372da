---------------------------- MODULE SignInProofs ----------------------------
(***************************************************************************)
(* Theorems about SignIn, for any requests, addresses, accounts, headers   *)
(* and limits.                                                             *)
(***************************************************************************)
EXTENDS SignIn, FiniteSetTheorems, TLAPS

-----------------------------------------------------------------------------
(* Whose address a request counts against.                                 *)

\* clientIP names an address.
LEMMA ClientIPType == \A q \in Requests : ClientIP(q) \in Address
<1> SUFFICES ASSUME NEW q \in Requests PROVE ClientIP(q) \in Address
  OBVIOUS
<1>1. q.caller \in Address /\ q.claim \in Seq(Address) /\ Loopback \in Address
  BY SignInAssumption DEF Requests
<1>2. RemoteAddr(q) \in Address
  BY <1>1 DEF RemoteAddr
<1>3. Forwarded(q) \in Seq(Address)
  BY <1>1 DEF Forwarded
<1>4. Forwarded(q) # <<>> => Forwarded(q)[Len(Forwarded(q))] \in Address
  BY <1>3
<1> QED
  BY <1>2, <1>4 DEF ClientIP

\* For a caller off this machine it is the caller's own, whatever it claims.
LEMMA ClientIPIsTheCaller ==
  \A q \in Requests : q.caller # Loopback => ClientIP(q) = q.caller
<1> SUFFICES ASSUME NEW q \in Requests, q.caller # Loopback PROVE ClientIP(q) = q.caller
  OBVIOUS
<1>1. q.caller \in Address /\ q.claim \in Seq(Address) /\ q.direct \in BOOLEAN
  BY SignInAssumption DEF Requests
<1>2. CASE q.direct
  BY <1>2 DEF ClientIP, RemoteAddr
<1>3. CASE ~q.direct
  <2>1. Forwarded(q) = Append(q.claim, q.caller)
    BY <1>3 DEF Forwarded
  <2>2. Forwarded(q) # <<>> /\ Forwarded(q)[Len(Forwarded(q))] = q.caller
    BY <1>1, <2>1
  <2>3. RemoteAddr(q) = Loopback
    BY <1>3 DEF RemoteAddr
  <2> QED
    BY <2>2, <2>3 DEF ClientIP
<1> QED
  BY <1>1, <1>2, <1>3

\* A request with no forwarding header that comes from this machine was made on it.
LEMMA FromTheBoxIsDirect ==
  \A q \in Requests : FromTheBox(q) => q.caller = Loopback /\ q.direct
<1> SUFFICES ASSUME NEW q \in Requests, FromTheBox(q) PROVE q.caller = Loopback /\ q.direct
  OBVIOUS
<1>1. q.caller \in Address /\ q.claim \in Seq(Address) /\ q.direct \in BOOLEAN
  BY SignInAssumption DEF Requests
<1>2. Append(q.claim, q.caller) # <<>>
  BY <1>1
<1> QED
  BY <1>1, <1>2 DEF FromTheBox, RemoteAddr, Forwarded

-----------------------------------------------------------------------------
(* Type correctness.                                                       *)

\* A request's fields, and the keys it counts against.
LEMMA RequestTypes ==
  ASSUME req \in [Request -> Arrivals], NEW r \in Request
  PROVE  /\ req[r] \in Requests
         /\ ClientIP(req[r]) \in Key /\ AccountKey(req[r]) \in Key
<1>1. req[r] \in Requests
  BY SignInAssumption
<1>2. req[r].email \in Email
  BY <1>1 DEF Requests
<1> QED
  BY <1>1, <1>2, ClientIPType, SignInAssumption DEF Key, AccountKey

\* Attempts are counted by natural numbers.
LEMMA PlacesAreFinite ==
  ASSUME places \in [Limiters -> [Key -> SUBSET Request]], NEW l \in Limiters, NEW k \in Key
  PROVE  IsFiniteSet(places[l][k]) /\ Cardinality(places[l][k]) \in Nat
<1>1. places[l][k] \subseteq Request
  OBVIOUS
<1>2. IsFiniteSet(places[l][k])
  BY <1>1, FS_Subset, SignInAssumption
<1> QED
  BY <1>2, FS_CardinalityType

LEMMA InitTypeOK == Init => TypeOK
BY DEF Init, TypeOK, Nothing, Zero, Places, Answers

LEMMA NextTypeOK == TypeOK /\ [Next]_vars => TypeOK'
<1> SUFFICES ASSUME TypeOK, [Next]_vars PROVE TypeOK'
  OBVIOUS
<1> USE DEF TypeOK, handler, history, At, Go, Answer
<1>a. ASSUME NEW r \in Request PROVE ClientIP(req[r]) \in Key /\ AccountKey(req[r]) \in Key
  BY RequestTypes
<1>b. Limiters = {"loginByIP", "loginByAccount", "apiByIP"}
  BY DEF Limiters
<1>1. ASSUME NEW r \in Request, AutoLoginOff(r) PROVE TypeOK'
  BY <1>1 DEF AutoLoginOff, Places, Answers
<1>2. ASSUME NEW r \in Request, AllowAddress(r) PROVE TypeOK'
  BY <1>2, <1>a, <1>b DEF AllowAddress, Allow, Places, Answers
<1>3. ASSUME NEW r \in Request, RefuseAddress(r) PROVE TypeOK'
  BY <1>3 DEF RefuseAddress, Refuse, Places, Answers
<1>4. ASSUME NEW r \in Request, AllowApi(r) PROVE TypeOK'
  <2>1. CASE Allow("apiByIP", ClientIP(req[r]), r) /\ Answer(r, "served")
    BY <1>4, <2>1, <1>a, <1>b DEF AllowApi, Allow, Places, Answers
  <2>2. CASE Refuse("apiByIP", ClientIP(req[r])) /\ Answer(r, "too_many")
    BY <1>4, <2>2 DEF AllowApi, Refuse, Places, Answers
  <2> QED
    BY <1>4, <2>1, <2>2 DEF AllowApi
<1>5. ASSUME NEW r \in Request, Decode(r) PROVE TypeOK'
  BY <1>5 DEF Decode, Places, Answers
<1>6. ASSUME NEW r \in Request, AllowAccount(r) PROVE TypeOK'
  BY <1>6, <1>a, <1>b DEF AllowAccount, Allow, Places, Answers
<1>7. ASSUME NEW r \in Request, RefuseAccount(r) PROVE TypeOK'
  BY <1>7 DEF RefuseAccount, Refuse, Places, Answers
<1>8. ASSUME NEW r \in Request, CheckKey(r) PROVE TypeOK'
  <2>1. tried' = tried \/ Try(r)
    BY <1>8 DEF CheckKey
  <2>2. Try(r) => tried' \in [Limiters -> [Key -> Nat]]
    BY DEF Try
  <2>3. tried' \in [Limiters -> [Key -> Nat]]
    BY <2>1, <2>2
  <2> QED
    BY <1>8, <2>3 DEF CheckKey, Places, Answers
<1>9. ASSUME NEW r \in Request, CallLogin(r) PROVE TypeOK'
  <2>1. tried' \in [Limiters -> [Key -> Nat]]
    BY <1>9 DEF CallLogin, Try
  <2>2. Holders(r) \subseteq Limiters \X Request
    BY <1>a, <1>b DEF Holders, KeysOf, AccountKey
  <2>3. held' \in [Request -> SUBSET (Limiters \X Request)]
    BY <1>9, <2>2 DEF CallLogin
  <2> QED
    BY <1>9, <2>1, <2>3 DEF CallLogin, Places, Answers
<1>10. ASSUME NEW r \in Request, ForgetAddress(r) PROVE TypeOK'
  BY <1>10, <1>a, <1>b, PlacesAreFinite DEF ForgetAddress, Forget, Places, Answers
<1>11. ASSUME NEW r \in Request, ForgetAccount(r) PROVE TypeOK'
  BY <1>11, <1>a, <1>b, PlacesAreFinite DEF ForgetAccount, Forget, Places, Answers
<1>12. ASSUME NEW r \in Request, Create(r) PROVE TypeOK'
  BY <1>12 DEF Create, Places, Answers
<1>13. ASSUME NEW r \in Request, Resolve(r) PROVE TypeOK'
  BY <1>13 DEF Resolve, Places, Answers
<1>14. ASSUME NEW r \in Request, ResetHidden(r) PROVE TypeOK'
  BY <1>14 DEF ResetHidden, Places, Answers
<1>15. ASSUME NEW r \in Request, ResetAddresses(r) PROVE TypeOK'
  BY <1>15, <1>b, PlacesAreFinite DEF ResetAddresses, Reset, Places, Answers
<1>16. ASSUME NEW r \in Request, ResetAccounts(r) PROVE TypeOK'
  BY <1>16, <1>b, PlacesAreFinite DEF ResetAccounts, Reset, Places, Answers
<1>17. ASSUME NEW r \in Request, ResetApi(r) PROVE TypeOK'
  BY <1>17, <1>b, PlacesAreFinite DEF ResetApi, Reset, Places, Answers
<1>18. ASSUME NEW r \in Request, Lapse(r) PROVE TypeOK'
  BY <1>18 DEF Lapse
<1>19. CASE UNCHANGED vars
  BY <1>19 DEF vars
<1> QED
  BY <1>1, <1>2, <1>3, <1>4, <1>5, <1>6, <1>7, <1>8, <1>9, <1>10, <1>11, <1>12, <1>13,
     <1>14, <1>15, <1>16, <1>17, <1>18, <1>19
     DEF Next, SigningIn, Resetting

\* Every reachable state of the sign-in handlers is well typed; in particular a
\* request has an answer exactly when its handler is done (api.go:141-178).
THEOREM SignInTypeCorrect == Spec => []TypeOK
BY InitTypeOK, NextTypeOK, PTL DEF Spec

-----------------------------------------------------------------------------
(* Who holds places.  A request holds places only under its own keys, takes *)
(* each when its handler passes the limiter, and no key outgrows the limit. *)

HeldByRequest ==
    \A r \in Request, k \in Key :
        /\ r \in places["loginByIP"][k] => k = ClientIP(req[r])
        /\ \A l \in Limiters : r \in places[l][k] => pc[r] \notin Before[l]

PlacesFit == \A l \in Limiters, k \in Key : Cardinality(places[l][k]) <= Limit[l]

PlacesInv == TypeOK /\ HeldByRequest /\ PlacesFit

LEMMA InitPlacesInv == Init => PlacesInv
<1> SUFFICES ASSUME Init PROVE PlacesInv
  OBVIOUS
<1>1. TypeOK
  BY InitTypeOK
<1>2. HeldByRequest
  BY DEF Init, Nothing, HeldByRequest, Limiters
<1>3. PlacesFit
  BY FS_EmptySet, SignInAssumption DEF Init, Nothing, PlacesFit
<1> QED
  BY <1>1, <1>2, <1>3 DEF PlacesInv

\* The two things a step can be to the limiters.  In either case nobody is again
\* before a limiter that has been passed.
Onward == \A r \in Request, l \in Limiters : pc'[r] \in Before[l] => pc[r] \in Before[l]

TakesNone ==
    /\ req' = req /\ Onward
    /\ \A l \in Limiters, k \in Key : places'[l][k] \subseteq places[l][k]

TakesOne(l, k, r) ==
    /\ req' = req /\ Onward
    /\ Allow(l, k, r) /\ pc[r] \in Before[l] /\ pc'[r] \notin Before[l]
    /\ \A s \in Request : s # r => pc'[s] = pc[s]
    /\ l = "loginByIP" => k = ClientIP(req[r])

LEMMA NextTakes ==
  TypeOK /\ [Next]_vars =>
    TakesNone \/ \E l \in Limiters, k \in Key, r \in Request : TakesOne(l, k, r)
<1> SUFFICES ASSUME TypeOK, [Next]_vars
             PROVE  TakesNone \/ \E l \in Limiters, k \in Key, r \in Request : TakesOne(l, k, r)
  OBVIOUS
<1>b. Limiters = {"loginByIP", "loginByAccount", "apiByIP"}
  BY DEF Limiters
<1>k. ASSUME NEW r \in Request PROVE ClientIP(req[r]) \in Key /\ AccountKey(req[r]) \in Key
  BY RequestTypes DEF TypeOK
<1>p. /\ Before["loginByIP"] = {"arrived"} /\ Before["apiByIP"] = {"arrived"}
      /\ Before["loginByAccount"] = {"arrived", "decoding", "account"}
  BY DEF Before
<1> USE DEF TypeOK, handler, history, At, Go, Answer, TakesNone, Onward
<1>1. ASSUME NEW r \in Request, AutoLoginOff(r) PROVE TakesNone
  BY <1>1, <1>b, <1>p DEF AutoLoginOff
<1>2. ASSUME NEW r \in Request, AllowAddress(r) PROVE TakesOne("loginByIP", ClientIP(req[r]), r)
  BY <1>2, <1>b, <1>p DEF AllowAddress, TakesOne
<1>3. ASSUME NEW r \in Request, RefuseAddress(r) PROVE TakesNone
  BY <1>3, <1>b, <1>p DEF RefuseAddress, Refuse
<1>4. ASSUME NEW r \in Request, AllowApi(r)
      PROVE  TakesNone \/ TakesOne("apiByIP", ClientIP(req[r]), r)
  <2>1. CASE Allow("apiByIP", ClientIP(req[r]), r) /\ Answer(r, "served")
    BY <1>4, <2>1, <1>b, <1>p DEF AllowApi, TakesOne
  <2>2. CASE Refuse("apiByIP", ClientIP(req[r])) /\ Answer(r, "too_many")
    BY <1>4, <2>2, <1>b, <1>p DEF AllowApi, Refuse
  <2> QED
    BY <1>4, <2>1, <2>2 DEF AllowApi
<1>5. ASSUME NEW r \in Request, Decode(r) PROVE TakesNone
  BY <1>5, <1>b, <1>p DEF Decode
<1>6. ASSUME NEW r \in Request, AllowAccount(r)
      PROVE  TakesOne("loginByAccount", AccountKey(req[r]), r)
  BY <1>6, <1>b, <1>p DEF AllowAccount, TakesOne
<1>7. ASSUME NEW r \in Request, RefuseAccount(r) PROVE TakesNone
  BY <1>7, <1>b, <1>p DEF RefuseAccount, Refuse
<1>8. ASSUME NEW r \in Request, CheckKey(r) PROVE TakesNone
  BY <1>8, <1>b, <1>p DEF CheckKey
<1>9. ASSUME NEW r \in Request, CallLogin(r) PROVE TakesNone
  BY <1>9, <1>b, <1>p DEF CallLogin
<1>10. ASSUME NEW r \in Request, ForgetAddress(r) PROVE TakesNone
  BY <1>10, <1>b, <1>k, <1>p DEF ForgetAddress, Forget
<1>11. ASSUME NEW r \in Request, ForgetAccount(r) PROVE TakesNone
  BY <1>11, <1>b, <1>k, <1>p DEF ForgetAccount, Forget
<1>12. ASSUME NEW r \in Request, Create(r) PROVE TakesNone
  BY <1>12, <1>b, <1>p DEF Create
<1>13. ASSUME NEW r \in Request, Resolve(r) PROVE TakesNone
  BY <1>13, <1>b, <1>p DEF Resolve
<1>14. ASSUME NEW r \in Request, ResetHidden(r) PROVE TakesNone
  BY <1>14, <1>b, <1>p DEF ResetHidden
<1>15. ASSUME NEW r \in Request, ResetAddresses(r) PROVE TakesNone
  BY <1>15, <1>b, <1>p DEF ResetAddresses, Reset
<1>16. ASSUME NEW r \in Request, ResetAccounts(r) PROVE TakesNone
  BY <1>16, <1>b, <1>p DEF ResetAccounts, Reset
<1>17. ASSUME NEW r \in Request, ResetApi(r) PROVE TakesNone
  BY <1>17, <1>b, <1>p DEF ResetApi, Reset
<1>18. ASSUME NEW r \in Request, Lapse(r) PROVE TakesNone
  BY <1>18, <1>b DEF Lapse
<1>19. CASE UNCHANGED vars
  BY <1>19 DEF vars
<1> HIDE DEF TakesNone
<1>20. ASSUME NEW r \in Request, NEW l \in Limiters, NEW k \in Key, TakesOne(l, k, r)
       PROVE  \E m \in Limiters, j \in Key, s \in Request : TakesOne(m, j, s)
  BY <1>20
<1> QED
  BY <1>1, <1>2, <1>3, <1>4, <1>5, <1>6, <1>7, <1>8, <1>9, <1>10, <1>11, <1>12, <1>13,
     <1>14, <1>15, <1>16, <1>17, <1>18, <1>19, <1>20, <1>b, <1>k
     DEF Next, SigningIn, Resetting

\* A step that takes no place keeps what is said of places.
LEMMA FewerPlaces ==
  ASSUME TypeOK, TypeOK', HeldByRequest, PlacesFit, TakesNone
  PROVE  HeldByRequest' /\ PlacesFit'
<1> USE DEF TakesNone, Onward
<1>1. HeldByRequest'
  BY DEF HeldByRequest, Limiters
<1>2. ASSUME NEW l \in Limiters, NEW k \in Key PROVE Cardinality(places'[l][k]) <= Limit[l]
  <2>1. IsFiniteSet(places[l][k]) /\ Cardinality(places[l][k]) \in Nat
    BY PlacesAreFinite DEF TypeOK
  <2>2. IsFiniteSet(places'[l][k])
    BY <2>1, FS_Subset
  <2>3. Cardinality(places'[l][k]) \in Nat
    BY <2>2, FS_CardinalityType
  <2>4. Cardinality(places'[l][k]) <= Cardinality(places[l][k])
    BY <2>1, FS_Subset
  <2>5. Limit[l] \in Nat /\ Cardinality(places[l][k]) <= Limit[l]
    BY SignInAssumption DEF PlacesFit
  <2> QED
    BY <2>1, <2>3, <2>4, <2>5
<1> QED
  BY <1>1, <1>2 DEF PlacesFit

\* So does a step in which a request takes its place.
LEMMA OneMorePlace ==
  ASSUME TypeOK, TypeOK', HeldByRequest, PlacesFit,
         NEW r \in Request, NEW l \in Limiters, NEW k \in Key, TakesOne(l, k, r)
  PROVE  HeldByRequest' /\ PlacesFit'
<1> USE DEF TypeOK, TakesOne, Onward
<1>1. places' \in [Limiters -> [Key -> SUBSET Request]]
  OBVIOUS
<1>2. /\ places'[l][k] = places[l][k] \cup {r}
      /\ \A m \in Limiters, j \in Key : m # l \/ j # k => places'[m][j] = places[m][j]
  BY DEF Allow
<1>3. HeldByRequest'
  <2> SUFFICES ASSUME NEW s \in Request, NEW j \in Key
               PROVE  /\ s \in places'["loginByIP"][j] => j = ClientIP(req[s])
                      /\ \A m \in Limiters : s \in places'[m][j] => pc'[s] \notin Before[m]
    BY DEF HeldByRequest
  <2>1. s \in places'["loginByIP"][j] => j = ClientIP(req[s])
    BY <1>2 DEF HeldByRequest, Limiters
  <2>2. ASSUME NEW m \in Limiters, s \in places'[m][j] PROVE pc'[s] \notin Before[m]
    <3>1. CASE s = r /\ m = l /\ j = k
      BY <3>1
    <3>2. CASE ~(s = r /\ m = l /\ j = k)
      <4>1. s \in places[m][j]
        BY <1>2, <2>2, <3>2
      <4> QED
        BY <4>1 DEF HeldByRequest
    <3> QED
      BY <3>1, <3>2
  <2> QED
    BY <2>1, <2>2
<1>4. ASSUME NEW m \in Limiters, NEW j \in Key PROVE Cardinality(places'[m][j]) <= Limit[m]
  <2>1. CASE m = l /\ j = k
    <3>1. IsFiniteSet(places[l][k]) /\ Cardinality(places[l][k]) \in Nat
      BY PlacesAreFinite
    <3> DEFINE P == places[l][k]
    <3> HIDE DEF P
    <3>2. Cardinality(P \cup {r}) = IF r \in P THEN Cardinality(P) ELSE Cardinality(P) + 1
      BY <3>1, FS_AddElement DEF P
    <3>3. Limit[l] \in Nat /\ Cardinality(P) < Limit[l]
      BY SignInAssumption DEF Allow, P
    <3>4. Cardinality(P \cup {r}) <= Limit[l]
      BY <3>1, <3>2, <3>3 DEF P
    <3> QED
      BY <1>2, <2>1, <3>4 DEF P
  <2>2. CASE m # l \/ j # k
    BY <1>2, <2>2 DEF PlacesFit
  <2> QED
    BY <2>1, <2>2
<1> QED
  BY <1>3, <1>4 DEF PlacesFit

LEMMA NextPlacesInv == PlacesInv /\ [Next]_vars => PlacesInv'
BY NextTypeOK, NextTakes, FewerPlaces, OneMorePlace DEF PlacesInv

LEMMA PlacesInvBoundsHosts == PlacesInv => HostBudget
<1> SUFFICES ASSUME PlacesInv, NEW a \in Address \ {Loopback}
             PROVE  Cardinality({r \in Request : /\ req[r].caller = a
                                 /\ \E k \in Key : r \in places["loginByIP"][k]})
                        <= Limit["loginByIP"]
  BY DEF HostBudget
<1> DEFINE H == {r \in Request : /\ req[r].caller = a
                                 /\ \E k \in Key : r \in places["loginByIP"][k]}
<1> USE DEF PlacesInv, TypeOK
<1>1. "loginByIP" \in Limiters /\ a \in Key
  BY DEF Limiters, Key
<1>2. H \subseteq places["loginByIP"][a]
  <2> SUFFICES ASSUME NEW r \in Request, req[r].caller = a, NEW k \in Key,
                      r \in places["loginByIP"][k]
               PROVE  k = a
    OBVIOUS
  <2>1. k = ClientIP(req[r])
    BY DEF HeldByRequest
  <2>2. req[r] \in Requests
    BY RequestTypes
  <2> QED
    BY <2>1, <2>2, ClientIPIsTheCaller
<1> HIDE DEF H
<1>3. IsFiniteSet(places["loginByIP"][a]) /\ Cardinality(places["loginByIP"][a]) \in Nat
  BY <1>1, PlacesAreFinite
<1>4. Cardinality(H) <= Cardinality(places["loginByIP"][a]) /\ IsFiniteSet(H)
  BY <1>2, <1>3, FS_Subset
<1>5. Cardinality(H) \in Nat
  BY <1>4, FS_CardinalityType
<1>6. Limit["loginByIP"] \in Nat /\ Cardinality(places["loginByIP"][a]) <= Limit["loginByIP"]
  BY <1>1, SignInAssumption DEF PlacesFit
<1>7. Cardinality(H) <= Limit["loginByIP"]
  BY <1>3, <1>4, <1>5, <1>6
<1> QED
  BY <1>7 DEF H

\* A host off this machine never holds more places than the budget of one address,
\* whatever headers it sends (ratelimit.go:101-110, api.go:24-26).
THEOREM HostsAreBounded == Spec => []HostBudget
BY InitPlacesInv, NextPlacesInv, PlacesInvBoundsHosts, PTL DEF Spec

-----------------------------------------------------------------------------
(* The two doors that need no form.                                        *)

\* Only a request from the machine itself is past the first test of the reset.
ResetInv ==
    \A r \in Request :
        pc[r] \in {"reset1", "reset2"} \/ answer[r] = "reset" => FromTheBox(req[r])

\* Only an auto-login that is enabled, with the right key, is past its tests.
AutoInv ==
    \A r \in Request :
        /\ req[r].kind = "auto" /\ pc[r] \in {"key", "calling", "accepted", "creating"}
               => AutoLogin
        /\ req[r].kind = "auto" /\ pc[r] \in {"calling", "accepted", "creating"}
               => req[r].key
        /\ req[r].kind = "auto" => pc[r] # "forgot"
        /\ r \in sessions /\ req[r].kind = "auto" => AutoLogin /\ req[r].key
        /\ req[r].kind = "auto" /\ answer[r] \notin {"none", "ui"} => AutoLogin
        /\ req[r].kind = "auto" /\ ~req[r].key => answer[r] \in {"none", "ui", "too_many"}

\* Only the links of an auto-login that is enabled use up attempts.
LinksFree ==
    \A r \in Request, k \in Key :
        req[r].kind = "auto" /\ r \in places["loginByIP"][k] => AutoLogin

DoorsInv == TypeOK /\ ResetInv /\ AutoInv /\ LinksFree

LEMMA InitDoorsInv == Init => DoorsInv
<1>1. Init => ResetInv /\ AutoInv
  BY DEF Init, ResetInv, AutoInv
<1>2. Init => LinksFree
  BY DEF Init, Nothing, LinksFree, Limiters
<1> QED
  BY <1>1, <1>2, InitTypeOK DEF DoorsInv

LEMMA NextLinksFree == TypeOK /\ LinksFree /\ [Next]_vars => LinksFree'
<1> SUFFICES ASSUME TypeOK, LinksFree, [Next]_vars PROVE LinksFree'
  OBVIOUS
<1> USE DEF TypeOK, handler, history, At, Go, Answer
<1>k. ASSUME NEW r \in Request PROVE ClientIP(req[r]) \in Key /\ AccountKey(req[r]) \in Key
  BY RequestTypes
<1>b. {"loginByIP", "loginByAccount", "apiByIP"} = Limiters
  BY DEF Limiters
<1>s. req' = req /\ config' = config
  BY DEF Next, SigningIn, Resetting, vars, AutoLoginOff, AllowAddress, RefuseAddress, AllowApi,
     Decode, AllowAccount, RefuseAccount, CheckKey, CallLogin, ForgetAddress, ForgetAccount,
     Create, Resolve, ResetHidden, ResetAddresses, ResetAccounts, ResetApi, Lapse
<1>f. ASSUME \A k \in Key : places'["loginByIP"][k] \subseteq places["loginByIP"][k]
      PROVE  LinksFree'
  BY <1>s, <1>f DEF LinksFree, AutoLogin
<1>1. ASSUME NEW r \in Request, AllowAddress(r) PROVE LinksFree'
  <2>1. /\ req[r].kind = "auto" => AutoLogin
        /\ places' = [places EXCEPT !["loginByIP"][ClientIP(req[r])] = @ \cup {r}]
    BY <1>1 DEF AllowAddress, Allow
  <2>2. \A k \in Key : places'["loginByIP"][k] \subseteq places["loginByIP"][k] \cup {r}
    BY <2>1, <1>b, <1>k
  <2> QED
    BY <2>1, <2>2, <1>s DEF LinksFree, AutoLogin
<1>2. ASSUME NEW r \in Request,
             \/ AutoLoginOff(r) \/ RefuseAddress(r) \/ Decode(r) \/ RefuseAccount(r)
             \/ CheckKey(r) \/ CallLogin(r) \/ Create(r) \/ Resolve(r) \/ ResetHidden(r)
      PROVE  LinksFree'
  <2>1. places' = places
    BY <1>2 DEF AutoLoginOff, RefuseAddress, Decode, RefuseAccount, Refuse, CheckKey, CallLogin,
       Create, Resolve, ResetHidden
  <2> QED
    BY <2>1, <1>f
<1>3. ASSUME NEW r \in Request, AllowApi(r) \/ AllowAccount(r) PROVE LinksFree'
  <2>1. places'["loginByIP"] = places["loginByIP"]
    BY <1>3, <1>b DEF AllowApi, AllowAccount, Allow, Refuse
  <2> QED
    BY <2>1, <1>f
<1>4. ASSUME NEW r \in Request, ForgetAddress(r) \/ ForgetAccount(r) PROVE LinksFree'
  <2>1. PICK l \in Limiters, k \in Key : places' = [places EXCEPT ![l][k] = {}]
    BY <1>4, <1>b, <1>k DEF ForgetAddress, ForgetAccount, Forget
  <2>2. \A j \in Key : places'["loginByIP"][j] \subseteq places["loginByIP"][j]
    BY <2>1, <1>b
  <2> QED
    BY <2>2, <1>f
<1>5. ASSUME NEW r \in Request, ResetAddresses(r) \/ ResetAccounts(r) \/ ResetApi(r)
      PROVE  LinksFree'
  <2>1. PICK l \in Limiters : places' = [places EXCEPT ![l] = [k \in Key |-> {}]]
    BY <1>5, <1>b DEF ResetAddresses, ResetAccounts, ResetApi, Reset
  <2>2. \A j \in Key : places'["loginByIP"][j] \subseteq places["loginByIP"][j]
    BY <2>1, <1>b
  <2> QED
    BY <2>2, <1>f
<1>6. ASSUME NEW r \in Request, Lapse(r) PROVE LinksFree'
  BY <1>6, <1>b, <1>f DEF Lapse
<1>7. CASE UNCHANGED vars
  BY <1>7, <1>f DEF vars
<1> QED
  BY <1>1, <1>2, <1>3, <1>4, <1>5, <1>6, <1>7 DEF Next, SigningIn, Resetting

LEMMA NextDoorsInv == DoorsInv /\ [Next]_vars => DoorsInv'
<1> SUFFICES ASSUME DoorsInv, [Next]_vars PROVE ResetInv' /\ AutoInv'
  BY NextTypeOK, NextLinksFree DEF DoorsInv
<1> USE DEF DoorsInv, TypeOK, ResetInv, AutoInv, handler, history, At, Go, Answer
<1>a. ASSUME config' = config PROVE AutoLogin' = AutoLogin
  BY <1>a DEF AutoLogin
<1>1. ASSUME NEW r \in Request, AutoLoginOff(r) PROVE ResetInv' /\ AutoInv'
  BY <1>1, <1>a DEF AutoLoginOff
<1>2. ASSUME NEW r \in Request, AllowAddress(r) PROVE ResetInv' /\ AutoInv'
  BY <1>2, <1>a DEF AllowAddress
<1>3. ASSUME NEW r \in Request, RefuseAddress(r) PROVE ResetInv' /\ AutoInv'
  BY <1>3, <1>a DEF RefuseAddress
<1>4. ASSUME NEW r \in Request, AllowApi(r) PROVE ResetInv' /\ AutoInv'
  BY <1>4, <1>a DEF AllowApi
<1>5. ASSUME NEW r \in Request, Decode(r) PROVE ResetInv' /\ AutoInv'
  BY <1>5, <1>a DEF Decode
<1>6. ASSUME NEW r \in Request, AllowAccount(r) PROVE ResetInv' /\ AutoInv'
  BY <1>6, <1>a DEF AllowAccount
<1>7. ASSUME NEW r \in Request, RefuseAccount(r) PROVE ResetInv' /\ AutoInv'
  BY <1>7, <1>a DEF RefuseAccount
<1>8. ASSUME NEW r \in Request, CheckKey(r) PROVE ResetInv' /\ AutoInv'
  BY <1>8, <1>a DEF CheckKey
<1>9. ASSUME NEW r \in Request, CallLogin(r) PROVE ResetInv' /\ AutoInv'
  BY <1>9, <1>a DEF CallLogin
<1>10. ASSUME NEW r \in Request, ForgetAddress(r) PROVE ResetInv' /\ AutoInv'
  BY <1>10, <1>a DEF ForgetAddress
<1>11. ASSUME NEW r \in Request, ForgetAccount(r) PROVE ResetInv' /\ AutoInv'
  BY <1>11, <1>a DEF ForgetAccount
<1>12. ASSUME NEW r \in Request, Create(r) PROVE ResetInv' /\ AutoInv'
  BY <1>12, <1>a DEF Create
<1>13. ASSUME NEW r \in Request, Resolve(r) PROVE ResetInv' /\ AutoInv'
  BY <1>13, <1>a DEF Resolve
<1>14. ASSUME NEW r \in Request, ResetHidden(r) PROVE ResetInv' /\ AutoInv'
  BY <1>14, <1>a DEF ResetHidden
<1>15. ASSUME NEW r \in Request, ResetAddresses(r) PROVE ResetInv' /\ AutoInv'
  BY <1>15, <1>a DEF ResetAddresses
<1>16. ASSUME NEW r \in Request, ResetAccounts(r) PROVE ResetInv' /\ AutoInv'
  BY <1>16, <1>a DEF ResetAccounts
<1>17. ASSUME NEW r \in Request, ResetApi(r) PROVE ResetInv' /\ AutoInv'
  BY <1>17, <1>a DEF ResetApi
<1>18. ASSUME NEW r \in Request, Lapse(r) PROVE ResetInv' /\ AutoInv'
  BY <1>18, <1>a DEF Lapse
<1>19. CASE UNCHANGED vars
  BY <1>19, <1>a DEF vars
<1> QED
  BY <1>1, <1>2, <1>3, <1>4, <1>5, <1>6, <1>7, <1>8, <1>9, <1>10, <1>11, <1>12, <1>13,
     <1>14, <1>15, <1>16, <1>17, <1>18, <1>19
     DEF Next, SigningIn, Resetting

\* The limiters are reset only by a call made on the machine itself, not through
\* its proxy (api.go:181-199).
THEOREM OnlyTheBoxResets == Spec => []ResetFromTheBox
<1>1. DoorsInv => ResetFromTheBox
  <2> SUFFICES ASSUME DoorsInv, NEW r \in Request,
                      pc[r] \in {"reset1", "reset2"} \/ answer[r] = "reset"
               PROVE  req[r].caller = Loopback /\ req[r].direct
    BY DEF ResetFromTheBox
  <2>1. FromTheBox(req[r]) /\ req[r] \in Requests
    BY RequestTypes DEF DoorsInv, ResetInv, TypeOK
  <2> QED
    BY <2>1, FromTheBoxIsDirect
<1> QED
  BY <1>1, InitDoorsInv, NextDoorsInv, PTL DEF Spec

\* With any part of its configuration missing or unfit, an auto-login link is a plain
\* visit that costs nothing, and a wrong key never gets further than a visit or the
\* budget of its address, for any requests and limits (autologin.go:11-66, 76-97).
THEOREM AutoLoginNeedsTheKey == Spec => []AutoLoginGuarded
<1>1. DoorsInv => AutoLoginGuarded
  BY DEF DoorsInv, AutoInv, LinksFree, AutoLoginGuarded, AutoLogin, Unfit
<1> QED
  BY <1>1, InitDoorsInv, NextDoorsInv, PTL DEF Spec

-----------------------------------------------------------------------------
(* A success clears what was there.  Whoever held a place when bkn accepted *)
(* a password is past that limiter for good, so once cleared it never has  *)
(* that place again.                                                       *)

HeldArePast ==
    \A r, s \in Request, l \in Limiters : <<l, s>> \in held[r] => pc[s] \notin Before[l]

\* None of those is left under r's keys in limiter l.
Cleared(r, l) ==
    \A k \in Key, s \in Request :
        <<l, k>> \in KeysOf(r) /\ s \in places[l][k] => <<l, s>> \notin held[r]

SuccessInv ==
    \A r \in Request :
        /\ r \in sessions => pc[r] = "done"
        /\ r \in sessions \/ pc[r] \in {"forgot", "creating"} => Cleared(r, "loginByIP")
        /\ r \in sessions \/ pc[r] = "creating" => Cleared(r, "loginByAccount")

ClearingInv == PlacesInv /\ HeldArePast /\ SuccessInv

\* A request that has passed its limiters keeps what it cleared clear, as long as
\* only requests that have not passed them take places.
LEMMA StaysCleared ==
  ASSUME TypeOK, TypeOK', HeldArePast, req' = req,
         NEW r \in Request, NEW l \in Limiters, Cleared(r, l), held'[r] = held[r],
         \A m \in Limiters, k \in Key, s \in Request :
             s \in places'[m][k] => s \in places[m][k] \/ pc[s] \in Before[m]
  PROVE  Cleared(r, l)'
<1> SUFFICES ASSUME NEW k \in Key, NEW s \in Request,
                    <<l, k>> \in KeysOf(r)', s \in places'[l][k], <<l, s>> \in held'[r]
             PROVE  FALSE
  BY DEF Cleared
<1>1. KeysOf(r)' = KeysOf(r)
  BY DEF KeysOf
<1>2. pc[s] \notin Before[l]
  BY DEF HeldArePast
<1>3. s \in places[l][k]
  BY <1>2
<1> QED
  BY <1>1, <1>3 DEF Cleared

\* No request takes a place it has passed the limiter of.
LEMMA PlacesAreTakenOnce ==
  ASSUME TypeOK, [Next]_vars, NEW l \in Limiters, NEW k \in Key, NEW s \in Request,
         s \in places'[l][k]
  PROVE  s \in places[l][k] \/ pc[s] \in Before[l]
<1>1. CASE TakesNone
  BY <1>1 DEF TakesNone
<1>2. ASSUME NEW m \in Limiters, NEW j \in Key, NEW r \in Request, TakesOne(m, j, r)
      PROVE  s \in places[l][k] \/ pc[s] \in Before[l]
  BY <1>2 DEF TakesOne, Allow, TypeOK
<1> QED
  BY <1>1, <1>2, NextTakes

LEMMA NextHeldArePast == ClearingInv /\ [Next]_vars => HeldArePast'
<1> SUFFICES ASSUME ClearingInv, [Next]_vars PROVE HeldArePast'
  OBVIOUS
<1> USE DEF ClearingInv, PlacesInv, TypeOK
<1>1. Onward
  BY NextTakes DEF TakesNone, TakesOne
<1>2. CASE held' = held
  BY <1>1, <1>2 DEF HeldArePast, Onward
<1>3. ASSUME NEW r \in Request, CallLogin(r) PROVE HeldArePast'
  <2>1. \A s \in Request, l \in Limiters : <<l, s>> \in Holders(r) => pc[s] \notin Before[l]
    <3> SUFFICES ASSUME NEW s \in Request, NEW l \in Limiters, <<l, s>> \in Holders(r)
                 PROVE  pc[s] \notin Before[l]
      OBVIOUS
    <3>1. PICK x \in KeysOf(r) : <<l, s>> \in {x[1]} \X places[x[1]][x[2]]
      BY DEF Holders
    <3>2. ClientIP(req[r]) \in Key /\ AccountKey(req[r]) \in Key
      BY RequestTypes
    <3>3. x[1] = l /\ s \in places[l][x[2]]
      BY <3>1
    <3>4. x[2] \in Key
      BY <3>1, <3>2 DEF KeysOf, AccountKey
    <3> QED
      BY <3>3, <3>4 DEF HeldByRequest
  <2>2. \A s \in Request : held'[s] = held[s] \/ held'[s] = Holders(r)
    BY <1>3 DEF CallLogin
  <2> QED
    BY <1>1, <2>1, <2>2 DEF HeldArePast, Onward
<1>4. ASSUME ~ \E r \in Request : CallLogin(r) PROVE held' = held
  BY <1>4 DEF Next, SigningIn, Resetting, AutoLoginOff, AllowAddress, RefuseAddress, AllowApi,
     Decode, AllowAccount, RefuseAccount, CheckKey, ForgetAddress, ForgetAccount, Create,
     Resolve, ResetHidden, ResetAddresses, ResetAccounts, ResetApi, Lapse, vars, history
<1> QED
  BY <1>2, <1>3, <1>4

LEMMA NextSuccessInv == ClearingInv /\ [Next]_vars => SuccessInv'
<1> SUFFICES ASSUME ClearingInv, [Next]_vars PROVE SuccessInv'
  OBVIOUS
<1>t. TypeOK /\ TypeOK' /\ HeldArePast /\ HeldByRequest /\ SuccessInv
  BY NextTypeOK DEF ClearingInv, PlacesInv
<1>o. \A m \in Limiters, k \in Key, s \in Request :
         s \in places'[m][k] => s \in places[m][k] \/ pc[s] \in Before[m]
  BY <1>t, PlacesAreTakenOnce
<1>b. {"loginByIP", "loginByAccount"} \subseteq Limiters
  BY DEF Limiters
<1>c. ASSUME NEW r \in Request, NEW l \in {"loginByIP", "loginByAccount"},
             req' = req, held'[r] = held[r], Cleared(r, l)
      PROVE  Cleared(r, l)'
  BY <1>b, <1>c, <1>o, <1>t, StaysCleared
\* It is enough that requests that reach a later part of their handler, and they
\* alone, have something new to show.
<1>s. ASSUME req' = req, held' = held, sessions' = sessions,
             \A s \in Request :
                 pc'[s] = pc[s] \/ (s \notin sessions /\ pc'[s] \notin {"forgot", "creating"})
      PROVE  SuccessInv'
  BY <1>s, <1>c, <1>t DEF SuccessInv
<1> USE DEF TypeOK, handler, history, At, Go, Answer
<1>1. ASSUME NEW r \in Request, AutoLoginOff(r) PROVE SuccessInv'
  BY <1>1, <1>s, <1>t DEF AutoLoginOff, SuccessInv
<1>2. ASSUME NEW r \in Request, AllowAddress(r) PROVE SuccessInv'
  BY <1>2, <1>s, <1>t DEF AllowAddress, SuccessInv
<1>3. ASSUME NEW r \in Request, RefuseAddress(r) PROVE SuccessInv'
  BY <1>3, <1>s, <1>t DEF RefuseAddress, SuccessInv
<1>4. ASSUME NEW r \in Request, AllowApi(r) PROVE SuccessInv'
  BY <1>4, <1>s, <1>t DEF AllowApi, SuccessInv
<1>5. ASSUME NEW r \in Request, Decode(r) PROVE SuccessInv'
  BY <1>5, <1>s, <1>t DEF Decode, SuccessInv
<1>6. ASSUME NEW r \in Request, AllowAccount(r) PROVE SuccessInv'
  BY <1>6, <1>s, <1>t DEF AllowAccount, SuccessInv
<1>7. ASSUME NEW r \in Request, RefuseAccount(r) PROVE SuccessInv'
  BY <1>7, <1>s, <1>t DEF RefuseAccount, SuccessInv
<1>8. ASSUME NEW r \in Request, CheckKey(r) PROVE SuccessInv'
  BY <1>8, <1>s, <1>t DEF CheckKey, SuccessInv
<1>9. ASSUME NEW r \in Request, CallLogin(r) PROVE SuccessInv'
  <2>1. req' = req /\ sessions' = sessions /\ pc[r] = "calling"
    BY <1>9 DEF CallLogin
  <2>2. r \notin sessions /\ pc'[r] \in {"accepted", "done"}
    BY <1>9, <2>1, <1>t DEF CallLogin, SuccessInv
  <2>3. \A s \in Request : s # r => pc'[s] = pc[s] /\ held'[s] = held[s]
    BY <1>9, <1>t DEF CallLogin
  <2> QED
    BY <2>1, <2>2, <2>3, <1>c, <1>t DEF SuccessInv
<1>10. ASSUME NEW r \in Request, ForgetAddress(r) PROVE SuccessInv'
  <2>1. /\ req' = req /\ sessions' = sessions /\ held' = held /\ r \notin sessions
        /\ \A s \in Request : s # r => pc'[s] = pc[s]
        /\ pc'[r] = IF req[r].kind = "login" THEN "forgot" ELSE "creating"
    BY <1>10, <1>t DEF ForgetAddress, SuccessInv
  <2>2. KeysOf(r)' = KeysOf(r)
    BY <2>1 DEF KeysOf
  <2>3. places'["loginByIP"][ClientIP(req[r])] = {}
    BY <1>10, <1>b, <1>t, RequestTypes DEF ForgetAddress, Forget
  <2>4. Cleared(r, "loginByIP")'
    BY <2>2, <2>3 DEF Cleared, KeysOf
  <2>5. pc'[r] = "creating" => Cleared(r, "loginByAccount")'
    BY <2>1, <2>2 DEF Cleared, KeysOf
  <2> QED
    BY <2>1, <2>4, <2>5, <1>c, <1>t DEF SuccessInv
<1>11. ASSUME NEW r \in Request, ForgetAccount(r) PROVE SuccessInv'
  <2>1. /\ req' = req /\ sessions' = sessions /\ held' = held /\ r \notin sessions
        /\ \A s \in Request : s # r => pc'[s] = pc[s]
        /\ pc[r] = "forgot" /\ pc'[r] = "creating"
    BY <1>11, <1>t DEF ForgetAccount, SuccessInv
  <2>2. KeysOf(r)' = KeysOf(r)
    BY <2>1 DEF KeysOf
  <2>3. places'["loginByAccount"][AccountKey(req[r])] = {}
    BY <1>11, <1>b, <1>t, RequestTypes DEF ForgetAccount, Forget
  <2>4. Cleared(r, "loginByAccount")'
    BY <2>2, <2>3 DEF Cleared, KeysOf, AccountKey
  <2> QED
    BY <2>1, <2>4, <1>c, <1>t DEF SuccessInv
<1>12. ASSUME NEW r \in Request, Create(r) PROVE SuccessInv'
  <2>1. /\ req' = req /\ sessions' = sessions \cup {r} /\ held' = held
        /\ \A s \in Request : s # r => pc'[s] = pc[s]
        /\ pc[r] = "creating" /\ pc'[r] = "done"
    BY <1>12, <1>t DEF Create
  <2> QED
    BY <2>1, <1>c, <1>t DEF SuccessInv
<1>13. ASSUME NEW r \in Request, Resolve(r) PROVE SuccessInv'
  BY <1>13, <1>s, <1>t DEF Resolve, SuccessInv
<1>14. ASSUME NEW r \in Request, ResetHidden(r) PROVE SuccessInv'
  BY <1>14, <1>s, <1>t DEF ResetHidden, SuccessInv
<1>15. ASSUME NEW r \in Request, ResetAddresses(r) PROVE SuccessInv'
  BY <1>15, <1>s, <1>t DEF ResetAddresses, SuccessInv
<1>16. ASSUME NEW r \in Request, ResetAccounts(r) PROVE SuccessInv'
  BY <1>16, <1>s, <1>t DEF ResetAccounts, SuccessInv
<1>17. ASSUME NEW r \in Request, ResetApi(r) PROVE SuccessInv'
  BY <1>17, <1>s, <1>t DEF ResetApi, SuccessInv
<1>18. ASSUME NEW r \in Request, Lapse(r) PROVE SuccessInv'
  BY <1>18, <1>s DEF Lapse
<1>19. CASE UNCHANGED vars
  BY <1>19, <1>s DEF vars
<1> QED
  BY <1>1, <1>2, <1>3, <1>4, <1>5, <1>6, <1>7, <1>8, <1>9, <1>10, <1>11, <1>12, <1>13,
     <1>14, <1>15, <1>16, <1>17, <1>18, <1>19
     DEF Next, SigningIn, Resetting

\* Who is signed in has no earlier attempt, his own or another's, left against his
\* address or his account, whatever else happened between bkn's answer and the
\* session (api.go:173-178).
THEOREM SuccessAlwaysClears == Spec => []SuccessClears
<1>1. Init => ClearingInv
  BY InitPlacesInv DEF Init, ClearingInv, HeldArePast, SuccessInv
<1>2. ClearingInv /\ [Next]_vars => ClearingInv'
  BY NextPlacesInv, NextHeldArePast, NextSuccessInv DEF ClearingInv
<1>3. ClearingInv => SuccessClears
  <2> SUFFICES ASSUME ClearingInv, NEW r \in sessions, NEW x \in held[r] \cap Holders(r)
               PROVE  FALSE
    BY DEF SuccessClears
  <2> USE DEF ClearingInv, PlacesInv, TypeOK
  <2>1. PICK y \in KeysOf(r) : x \in {y[1]} \X places[y[1]][y[2]]
    BY DEF Holders
  <2>2. ClientIP(req[r]) \in Key /\ AccountKey(req[r]) \in Key
    BY RequestTypes
  <2>3. y[1] \in {"loginByIP", "loginByAccount"} /\ y[2] \in Key /\ y = <<y[1], y[2]>>
    BY <2>1, <2>2 DEF KeysOf, AccountKey
  <2>4. x = <<y[1], x[2]>> /\ x[2] \in places[y[1]][y[2]]
    BY <2>1
  <2>5. x[2] \in Request
    BY <2>3, <2>4 DEF Limiters
  <2>6. Cleared(r, y[1])
    BY <2>3 DEF SuccessInv
  <2> QED
    BY <2>1, <2>3, <2>4, <2>5, <2>6 DEF Cleared
<1> QED
  BY <1>1, <1>2, <1>3, PTL DEF Spec
-----------------------------------------------------------------------------
(* Attempts are paid for.  For each key the passwords bkn was asked about,  *)
(* and the attempts that have taken a place and not tried bkn yet, are    *)
(* never more than the places taken now and those given back.              *)

Budgets == {"loginByIP", "loginByAccount"}

Due == [loginByIP |-> {"decoding", "account", "key", "calling"},
        loginByAccount |-> {"calling"}]

Pending(l, k) == {r \in Request : <<l, k>> \in KeysOf(r) /\ pc[r] \in Due[l]}

Paid(l, k) ==
    tried[l][k] + Cardinality(Pending(l, k)) <= Cardinality(places[l][k]) + freed[l][k]

PaidInv == PlacesInv /\ \A l \in Budgets, k \in Key : Paid(l, k)

\* All the numbers are natural ones.
LEMMA CountsAreNat ==
  ASSUME TypeOK, NEW l \in Budgets, NEW k \in Key
  PROVE  /\ tried[l][k] \in Nat /\ freed[l][k] \in Nat
         /\ IsFiniteSet(places[l][k]) /\ Cardinality(places[l][k]) \in Nat
         /\ IsFiniteSet(Pending(l, k)) /\ Cardinality(Pending(l, k)) \in Nat
<1>1. l \in Limiters
  BY DEF Limiters, Budgets
<1>2. IsFiniteSet(places[l][k]) /\ Cardinality(places[l][k]) \in Nat
  BY <1>1, PlacesAreFinite DEF TypeOK
<1>3. Pending(l, k) \subseteq Request
  BY DEF Pending
<1>4. IsFiniteSet(Pending(l, k))
  BY <1>3, FS_Subset, SignInAssumption
<1>5. Cardinality(Pending(l, k)) \in Nat
  BY <1>4, FS_CardinalityType
<1> QED
  BY <1>1, <1>2, <1>4, <1>5 DEF TypeOK

LEMMA CountsAreNatAfter ==
  ASSUME TypeOK', NEW l \in Budgets, NEW k \in Key
  PROVE  /\ tried'[l][k] \in Nat /\ freed'[l][k] \in Nat
         /\ IsFiniteSet(places'[l][k]) /\ Cardinality(places'[l][k]) \in Nat
         /\ IsFiniteSet(Pending(l, k)') /\ Cardinality(Pending(l, k)') \in Nat
<1>1. l \in Limiters
  BY DEF Limiters, Budgets
<1>2. places'[l][k] \subseteq Request
  BY <1>1 DEF TypeOK
<1>3. IsFiniteSet(places'[l][k])
  BY <1>2, FS_Subset, SignInAssumption
<1>4. Cardinality(places'[l][k]) \in Nat
  BY <1>3, FS_CardinalityType
<1>5. Pending(l, k)' \subseteq Request
  BY DEF Pending
<1>6. IsFiniteSet(Pending(l, k)')
  BY <1>5, FS_Subset, SignInAssumption
<1>7. Cardinality(Pending(l, k)') \in Nat
  BY <1>6, FS_CardinalityType
<1> QED
  BY <1>1, <1>3, <1>4, <1>6, <1>7 DEF TypeOK

\* Nobody new waits, and each place that goes is given back.
LEMMA StaysPaid ==
  ASSUME TypeOK, TypeOK', NEW l \in Budgets, NEW k \in Key, Paid(l, k),
         Pending(l, k)' \subseteq Pending(l, k), tried'[l][k] = tried[l][k],
         Cardinality(places'[l][k]) + freed'[l][k] = Cardinality(places[l][k]) + freed[l][k]
  PROVE  Paid(l, k)'
<1>1. Cardinality(Pending(l, k)') <= Cardinality(Pending(l, k))
  BY CountsAreNat, FS_Subset
<1>2. Paid(l, k)' <=> tried'[l][k] + Cardinality(Pending(l, k)')
                        <= Cardinality(places'[l][k]) + freed'[l][k]
  BY DEF Paid
<1> QED
  BY <1>1, <1>2, CountsAreNat, CountsAreNatAfter DEF Paid

\* One request takes a place and waits.
LEMMA PaysByPlace ==
  ASSUME TypeOK, TypeOK', NEW l \in Budgets, NEW k \in Key, Paid(l, k),
         NEW r \in Request, r \notin places[l][k], places'[l][k] = places[l][k] \cup {r},
         Pending(l, k)' \subseteq Pending(l, k) \cup {r},
         tried'[l][k] = tried[l][k], freed'[l][k] = freed[l][k]
  PROVE  Paid(l, k)'
<1> DEFINE W == Pending(l, k)
           P == places[l][k]
<1>1. IsFiniteSet(W) /\ Cardinality(W) \in Nat /\ IsFiniteSet(P) /\ Cardinality(P) \in Nat
  BY CountsAreNat
<1> HIDE DEF W, P
<1>2. Cardinality(P \cup {r}) = Cardinality(P) + 1
  BY <1>1, FS_AddElement DEF P
<1>3. /\ IsFiniteSet(W \cup {r})
      /\ Cardinality(W \cup {r}) = Cardinality(W) \/ Cardinality(W \cup {r}) = Cardinality(W) + 1
  BY <1>1, FS_AddElement
<1>4. Cardinality(Pending(l, k)') <= Cardinality(W \cup {r})
  BY <1>3, FS_Subset DEF W
<1>5. Cardinality(Pending(l, k)') <= Cardinality(W) + 1
  BY <1>1, <1>3, <1>4, CountsAreNatAfter
<1>6. Cardinality(places'[l][k]) = Cardinality(P) + 1
  BY <1>2 DEF P
<1>7. tried[l][k] + Cardinality(W) <= Cardinality(P) + freed[l][k]
  BY DEF Paid, W, P
<1>8. Paid(l, k)' <=> tried'[l][k] + Cardinality(Pending(l, k)')
                        <= Cardinality(places'[l][k]) + freed'[l][k]
  BY DEF Paid
<1> QED
  BY <1>1, <1>5, <1>6, <1>7, <1>8, CountsAreNat, CountsAreNatAfter

\* One that waited has its secret tried.
LEMMA SecretIsTried ==
  ASSUME TypeOK, TypeOK', NEW l \in Budgets, NEW k \in Key, Paid(l, k),
         NEW r \in Pending(l, k), Pending(l, k)' \subseteq Pending(l, k) \ {r},
         tried'[l][k] = tried[l][k] + 1, places' = places, freed' = freed
  PROVE  Paid(l, k)'
<1> DEFINE W == Pending(l, k)
<1>1. IsFiniteSet(W) /\ Cardinality(W) \in Nat /\ r \in W
  BY CountsAreNat
<1> HIDE DEF W
<1>2. IsFiniteSet(W \ {r}) /\ Cardinality(W \ {r}) = Cardinality(W) - 1
  BY <1>1, FS_RemoveElement
<1>3. Cardinality(Pending(l, k)') <= Cardinality(W \ {r})
  BY <1>2, FS_Subset DEF W
<1>4. tried[l][k] + Cardinality(W) <= Cardinality(places[l][k]) + freed[l][k]
  BY DEF Paid, W
<1>5. Paid(l, k)' <=> tried'[l][k] + Cardinality(Pending(l, k)')
                        <= Cardinality(places'[l][k]) + freed'[l][k]
  BY DEF Paid
<1> QED
  BY <1>1, <1>2, <1>3, <1>4, <1>5, CountsAreNat, CountsAreNatAfter

\* Who waits after a step: those who waited, and those who stepped into it.
LEMMA PendingAfter ==
  ASSUME TypeOK, req' = req, NEW l \in Budgets, NEW k \in Key,
         NEW r \in Request, \A s \in Request : s # r => pc'[s] = pc[s]
  PROVE  /\ Pending(l, k)' \subseteq Pending(l, k) \cup {r}
         /\ <<l, k>> \notin KeysOf(r) \/ pc'[r] \notin Due[l] =>
                Pending(l, k)' \subseteq Pending(l, k) \ {r}
         /\ pc[r] \in Due[l] => Pending(l, k)' \subseteq Pending(l, k)
<1>1. \A s \in Request : KeysOf(s)' = KeysOf(s)
  BY DEF KeysOf
<1> QED
  BY <1>1 DEF Pending

LEMMA InitPaidInv == Init => PaidInv
<1> SUFFICES ASSUME Init, NEW l \in Budgets, NEW k \in Key PROVE Paid(l, k)
  BY InitPlacesInv DEF PaidInv
<1>1. Pending(l, k) = {}
  BY DEF Pending, Init, Due, Budgets
<1>2. l \in Limiters
  BY DEF Budgets, Limiters
<1>3. tried[l][k] = 0 /\ freed[l][k] = 0 /\ places[l][k] = {}
  BY <1>2 DEF Init, Zero, Nothing
<1> QED
  BY <1>1, <1>3, FS_EmptySet DEF Paid

LEMMA NextPaid ==
  ASSUME PaidInv, [Next]_vars, NEW l \in Budgets, NEW k \in Key
  PROVE  Paid(l, k)'
<1>t. TypeOK /\ TypeOK' /\ HeldByRequest /\ Paid(l, k)
  BY NextTypeOK DEF PaidInv, PlacesInv
<1>b. l \in Limiters /\ Budgets \subseteq Limiters /\ "apiByIP" \notin Budgets
  BY DEF Limiters, Budgets
<1>d. /\ Due["loginByIP"] = {"decoding", "account", "key", "calling"}
      /\ Due["loginByAccount"] = {"calling"}
  BY DEF Due
<1>k. ASSUME NEW r \in Request
      PROVE  /\ ClientIP(req[r]) \in Key /\ AccountKey(req[r]) \in Key
             /\ KeysOf(r) = {<<"loginByIP", ClientIP(req[r])>>} \cup
                    (IF req[r].kind = "login"
                     THEN {<<"loginByAccount", AccountKey(req[r])>>} ELSE {})
  BY <1>t, RequestTypes DEF TypeOK, KeysOf, AccountKey
\* A step that only takes requests out of the wait.
<1>w. ASSUME NEW r \in Request, req' = req, \A s \in Request : s # r => pc'[s] = pc[s],
             pc[r] \in Due[l] \/ pc'[r] \notin Due[l],
             UNCHANGED <<places, tried, freed>>
      PROVE  Paid(l, k)'
  <2>1. Pending(l, k)' \subseteq Pending(l, k)
    BY <1>w, <1>t, PendingAfter
  <2> QED
    BY <1>w, <1>t, <2>1, StaysPaid
<1> USE DEF TypeOK, handler, history, At, Go, Answer
<1>1. ASSUME NEW r \in Request, AutoLoginOff(r) PROVE Paid(l, k)'
  BY <1>1, <1>t, <1>d, <1>w DEF AutoLoginOff, Budgets
<1>3. ASSUME NEW r \in Request, RefuseAddress(r) PROVE Paid(l, k)'
  BY <1>3, <1>t, <1>d, <1>w DEF RefuseAddress, Refuse, Budgets
<1>5. ASSUME NEW r \in Request, Decode(r) PROVE Paid(l, k)'
  BY <1>5, <1>t, <1>d, <1>w DEF Decode, Budgets
<1>7. ASSUME NEW r \in Request, RefuseAccount(r) PROVE Paid(l, k)'
  BY <1>7, <1>t, <1>d, <1>w DEF RefuseAccount, Refuse, Budgets
<1>8. ASSUME NEW r \in Request, CheckKey(r) PROVE Paid(l, k)'
  <2>1. /\ req' = req /\ \A s \in Request : s # r => pc'[s] = pc[s]
        /\ pc[r] = "key" /\ UNCHANGED <<places, freed>>
    BY <1>8, <1>t DEF CheckKey
  <2>2. pc[r] \in Due[l] \/ <<l, k>> \notin KeysOf(r)
    <3>1. CASE l = "loginByIP"
      BY <2>1, <3>1, <1>d
    <3>2. CASE l = "loginByAccount"
      <4>1. req[r].kind = "auto"
        BY <1>8 DEF CheckKey
      <4> QED
        BY <3>2, <4>1, <1>k
    <3> QED
      BY <3>1, <3>2 DEF Budgets
  <2>3. CASE req[r].key
    <3>1. pc'[r] = "calling" /\ tried' = tried
      BY <1>8, <2>3, <1>t DEF CheckKey
    <3>2. Pending(l, k)' \subseteq Pending(l, k)
      BY <2>1, <2>2, <1>t, PendingAfter
    <3> QED
      BY <2>1, <3>1, <3>2, <1>t, StaysPaid
  <2>4. CASE ~req[r].key
    <3>1. /\ pc'[r] = "done"
          /\ tried'[l][k] = IF <<l, k>> \in KeysOf(r) THEN tried[l][k] + 1 ELSE tried[l][k]
      BY <1>8, <2>4, <1>t, <1>b DEF CheckKey, Try
    <3>2. Pending(l, k)' \subseteq Pending(l, k) \ {r}
      BY <2>1, <3>1, <1>t, <1>d, PendingAfter DEF Budgets
    <3>3. CASE <<l, k>> \in KeysOf(r)
      <4>1. r \in Pending(l, k)
        BY <2>2, <3>3 DEF Pending
      <4> QED
        BY <2>1, <3>1, <3>2, <3>3, <4>1, <1>t, SecretIsTried
    <3>4. CASE <<l, k>> \notin KeysOf(r)
      BY <2>1, <3>1, <3>2, <3>4, <1>t, StaysPaid
    <3> QED
      BY <3>3, <3>4
  <2> QED
    BY <2>3, <2>4
<1>12. ASSUME NEW r \in Request, Create(r) PROVE Paid(l, k)'
  BY <1>12, <1>t, <1>d, <1>w DEF Create, Budgets
<1>13. ASSUME NEW r \in Request, Resolve(r) PROVE Paid(l, k)'
  BY <1>13, <1>t, <1>d, <1>w DEF Resolve, Budgets
<1>14. ASSUME NEW r \in Request, ResetHidden(r) PROVE Paid(l, k)'
  BY <1>14, <1>t, <1>d, <1>w DEF ResetHidden, Budgets
<1>2. ASSUME NEW r \in Request, AllowAddress(r) PROVE Paid(l, k)'
  <2>1. /\ req' = req /\ \A s \in Request : s # r => pc'[s] = pc[s]
        /\ pc[r] = "arrived" /\ pc'[r] \in {"decoding", "key", "resolving"}
        /\ tried' = tried /\ freed' = freed
    BY <1>2, <1>t DEF AllowAddress
  <2>2. places' = [places EXCEPT !["loginByIP"][ClientIP(req[r])] = @ \cup {r}]
    BY <1>2 DEF AllowAddress, Allow
  <2>3. CASE l = "loginByIP" /\ k = ClientIP(req[r])
    <3>1. places'[l][k] = places[l][k] \cup {r}
      BY <2>2, <2>3, <1>b, <1>t
    <3>2. r \notin places[l][k]
      BY <2>1, <2>3, <1>t, <1>b DEF HeldByRequest, Before
    <3>3. Pending(l, k)' \subseteq Pending(l, k) \cup {r}
      BY <2>1, <1>t, PendingAfter
    <3> QED
      BY <2>1, <3>1, <3>2, <3>3, <1>t, PaysByPlace
  <2>4. CASE l # "loginByIP" \/ k # ClientIP(req[r])
    <3>1. places'[l][k] = places[l][k]
      BY <2>2, <2>4, <1>b, <1>t
    <3>2. <<l, k>> \notin KeysOf(r) \/ pc'[r] \notin Due[l]
      BY <2>1, <2>4, <1>k, <1>d DEF Budgets
    <3>3. Pending(l, k)' \subseteq Pending(l, k)
      BY <2>1, <3>2, <1>t, PendingAfter
    <3> QED
      BY <2>1, <3>1, <3>3, <1>t, StaysPaid
  <2> QED
    BY <2>3, <2>4
<1>4. ASSUME NEW r \in Request, AllowApi(r) PROVE Paid(l, k)'
  <2>1. /\ req' = req /\ \A s \in Request : s # r => pc'[s] = pc[s]
        /\ pc'[r] = "done" /\ tried' = tried /\ freed' = freed
    BY <1>4, <1>t DEF AllowApi
  <2>2. places'[l][k] = places[l][k]
    <3>1. CASE Allow("apiByIP", ClientIP(req[r]), r)
      BY <3>1, <1>b, <1>t DEF Allow
    <3> QED
      BY <1>4, <3>1 DEF AllowApi, Refuse
  <2>3. Pending(l, k)' \subseteq Pending(l, k)
    BY <2>1, <1>t, <1>d, PendingAfter DEF Budgets
  <2> QED
    BY <2>1, <2>2, <2>3, <1>t, StaysPaid
<1>6. ASSUME NEW r \in Request, AllowAccount(r) PROVE Paid(l, k)'
  <2>1. /\ req' = req /\ \A s \in Request : s # r => pc'[s] = pc[s]
        /\ pc[r] = "account" /\ pc'[r] = "calling"
        /\ tried' = tried /\ freed' = freed
    BY <1>6, <1>t DEF AllowAccount
  <2>2. places' = [places EXCEPT !["loginByAccount"][AccountKey(req[r])] = @ \cup {r}]
    BY <1>6 DEF AllowAccount, Allow
  <2>3. CASE l = "loginByAccount" /\ k = AccountKey(req[r])
    <3>1. places'[l][k] = places[l][k] \cup {r}
      BY <2>2, <2>3, <1>b, <1>t
    <3>2. r \notin places[l][k]
      BY <2>1, <2>3, <1>t, <1>b DEF HeldByRequest, Before
    <3>3. Pending(l, k)' \subseteq Pending(l, k) \cup {r}
      BY <2>1, <1>t, PendingAfter
    <3> QED
      BY <2>1, <3>1, <3>2, <3>3, <1>t, PaysByPlace
  <2>4. CASE l # "loginByAccount" \/ k # AccountKey(req[r])
    <3>1. places'[l][k] = places[l][k]
      BY <2>2, <2>4, <1>b, <1>t
    <3>2. <<l, k>> \notin KeysOf(r) \/ pc[r] \in Due[l]
      BY <2>1, <2>4, <1>k, <1>d DEF Budgets
    <3>3. Pending(l, k)' \subseteq Pending(l, k)
      BY <2>1, <3>2, <1>t, PendingAfter
    <3> QED
      BY <2>1, <3>1, <3>3, <1>t, StaysPaid
  <2> QED
    BY <2>3, <2>4
<1>9. ASSUME NEW r \in Request, CallLogin(r) PROVE Paid(l, k)'
  <2>1. /\ req' = req /\ \A s \in Request : s # r => pc'[s] = pc[s]
        /\ pc[r] = "calling" /\ pc'[r] \in {"accepted", "done"}
        /\ places' = places /\ freed' = freed
        /\ tried'[l][k] = IF <<l, k>> \in KeysOf(r) THEN tried[l][k] + 1 ELSE tried[l][k]
    BY <1>9, <1>t, <1>b DEF CallLogin, Try
  <2>2. pc[r] \in Due[l] /\ pc'[r] \notin Due[l]
    BY <2>1, <1>d DEF Budgets
  <2>3. Pending(l, k)' \subseteq Pending(l, k) \ {r}
    BY <2>1, <2>2, <1>t, PendingAfter
  <2>4. CASE <<l, k>> \in KeysOf(r)
    <3>1. r \in Pending(l, k)
      BY <2>2, <2>4 DEF Pending
    <3> QED
      BY <2>1, <2>3, <2>4, <3>1, <1>t, SecretIsTried
  <2>5. CASE <<l, k>> \notin KeysOf(r)
    BY <2>1, <2>3, <2>5, <1>t, StaysPaid
  <2> QED
    BY <2>4, <2>5
\* A key that is cleared gives back what was there.
<1>c. Cardinality({}) = 0 /\ Cardinality(places[l][k]) \in Nat /\ freed[l][k] \in Nat
  BY <1>t, FS_EmptySet, CountsAreNat
<1>f. ASSUME NEW m \in Budgets, NEW j \in Key, Forget(m, j)
      PROVE  Cardinality(places'[l][k]) + freed'[l][k] = Cardinality(places[l][k]) + freed[l][k]
  <2>1. CASE m = l /\ j = k
    <3>1. places'[l][k] = {} /\ freed'[l][k] = freed[l][k] + Cardinality(places[l][k])
      BY <1>f, <2>1, <1>b, <1>t DEF Forget
    <3> QED
      BY <3>1, <1>c
  <2>2. CASE m # l \/ j # k
    BY <1>f, <2>2, <1>b, <1>t DEF Forget
  <2> QED
    BY <2>1, <2>2
<1>r. ASSUME NEW m \in Limiters, Reset(m)
      PROVE  Cardinality(places'[l][k]) + freed'[l][k] = Cardinality(places[l][k]) + freed[l][k]
  <2>1. CASE m = l
    <3>1. places'[l][k] = {} /\ freed'[l][k] = freed[l][k] + Cardinality(places[l][k])
      BY <1>r, <2>1, <1>b, <1>t DEF Reset
    <3> QED
      BY <3>1, <1>c
  <2>2. CASE m # l
    BY <1>r, <2>2, <1>b, <1>t DEF Reset
  <2> QED
    BY <2>1, <2>2
<1>g. ASSUME NEW r \in Request, req' = req, \A s \in Request : s # r => pc'[s] = pc[s],
             pc'[r] \notin Due[l], tried' = tried,
             Cardinality(places'[l][k]) + freed'[l][k] = Cardinality(places[l][k]) + freed[l][k]
      PROVE  Paid(l, k)'
  <2>1. Pending(l, k)' \subseteq Pending(l, k)
    BY <1>g, <1>t, PendingAfter
  <2> QED
    BY <1>g, <1>t, <2>1, StaysPaid
<1>10. ASSUME NEW r \in Request, ForgetAddress(r) PROVE Paid(l, k)'
  <2>1. /\ req' = req /\ \A s \in Request : s # r => pc'[s] = pc[s]
        /\ pc'[r] \in {"forgot", "creating"} /\ tried' = tried
    BY <1>10, <1>t DEF ForgetAddress
  <2>2. pc'[r] \notin Due[l]
    BY <2>1, <1>d DEF Budgets
  <2>3. Forget("loginByIP", ClientIP(req[r])) /\ "loginByIP" \in Budgets
    BY <1>10 DEF ForgetAddress, Budgets
  <2> QED
    BY <2>1, <2>2, <2>3, <1>f, <1>g, <1>k
<1>11. ASSUME NEW r \in Request, ForgetAccount(r) PROVE Paid(l, k)'
  <2>1. /\ req' = req /\ \A s \in Request : s # r => pc'[s] = pc[s]
        /\ pc'[r] \in {"creating"} /\ tried' = tried
    BY <1>11, <1>t DEF ForgetAccount
  <2>2. pc'[r] \notin Due[l]
    BY <2>1, <1>d DEF Budgets
  <2>3. Forget("loginByAccount", AccountKey(req[r])) /\ "loginByAccount" \in Budgets
    BY <1>11 DEF ForgetAccount, Budgets
  <2> QED
    BY <2>1, <2>2, <2>3, <1>f, <1>g, <1>k
<1>15. ASSUME NEW r \in Request, ResetAddresses(r) \/ ResetAccounts(r) \/ ResetApi(r)
       PROVE  Paid(l, k)'
  <2>1. /\ req' = req /\ \A s \in Request : s # r => pc'[s] = pc[s]
        /\ pc'[r] \notin Due[l] /\ tried' = tried
    BY <1>15, <1>t, <1>d DEF ResetAddresses, ResetAccounts, ResetApi, Budgets
  <2>2. \E m \in Limiters : Reset(m)
    BY <1>15 DEF ResetAddresses, ResetAccounts, ResetApi, Limiters
  <2> QED
    BY <2>1, <2>2, <1>r, <1>g
<1>18. ASSUME NEW r \in Request, Lapse(r) PROVE Paid(l, k)'
  <2>1. PICK m \in Limiters, j \in Key :
          /\ r \in places[m][j]
          /\ places' = [places EXCEPT ![m][j] = @ \ {r}]
          /\ freed' = [freed EXCEPT ![m][j] = @ + 1]
    BY <1>18 DEF Lapse
  <2>2. UNCHANGED <<req, pc, tried>>
    BY <1>18 DEF Lapse
  <2>3. Cardinality(places'[l][k]) + freed'[l][k] = Cardinality(places[l][k]) + freed[l][k]
    <3>1. CASE m = l /\ j = k
      <4>1. places'[l][k] = places[l][k] \ {r} /\ freed'[l][k] = freed[l][k] + 1
        BY <2>1, <3>1, <1>t
      <4>2. Cardinality(places[l][k] \ {r}) = Cardinality(places[l][k]) - 1
        BY <2>1, <3>1, <1>t, CountsAreNat, FS_RemoveElement
      <4> QED
        BY <4>1, <4>2, <1>c
    <3>2. CASE m # l \/ j # k
      BY <2>1, <3>2, <1>b, <1>t
    <3> QED
      BY <3>1, <3>2
  <2>4. Pending(l, k)' = Pending(l, k)
    BY <2>2 DEF Pending, KeysOf
  <2> QED
    BY <2>2, <2>3, <2>4, <1>t, StaysPaid
<1>19. CASE UNCHANGED vars
  <2>1. Pending(l, k)' = Pending(l, k)
    BY <1>19 DEF Pending, KeysOf, vars
  <2> QED
    BY <1>19, <2>1, <1>t DEF Paid, vars
<1> QED
  BY <1>1, <1>2, <1>3, <1>4, <1>5, <1>6, <1>7, <1>8, <1>9, <1>10, <1>11, <1>12, <1>13,
     <1>14, <1>15, <1>18, <1>19
     DEF Next, SigningIn, Resetting

\* However many attempts are between a limiter and bkn, no more secrets are tried from
\* one address or against one account, passwords and wrong keys of the link together,
\* than the limit and what was given back (api.go:141-176, autologin.go:78-97).
THEOREM PasswordsArePaid == Spec => []AttemptsArePaid
<1>1. PaidInv /\ [Next]_vars => PaidInv'
  BY NextPlacesInv, NextPaid DEF PaidInv
<1>2. PaidInv => AttemptsArePaid
  <2> SUFFICES ASSUME PaidInv, NEW l \in Budgets, NEW k \in Key
               PROVE  tried[l][k] <= Limit[l] + freed[l][k]
    BY DEF AttemptsArePaid, Budgets
  <2>1. l \in Limiters
    BY DEF Budgets, Limiters
  <2>2. Limit[l] \in Nat /\ Cardinality(places[l][k]) <= Limit[l]
    BY <2>1, SignInAssumption DEF PaidInv, PlacesInv, PlacesFit
  <2>3. tried[l][k] + Cardinality(Pending(l, k)) <= Cardinality(places[l][k]) + freed[l][k]
    BY DEF PaidInv, Paid
  <2> QED
    BY <2>2, <2>3, CountsAreNat DEF PaidInv, PlacesInv
<1> QED
  BY <1>1, <1>2, InitPaidInv, PTL DEF Spec

-----------------------------------------------------------------------------
(* Each limiter is a budget.                                               *)

LEMMA SameCardinality ==
  \A S : /\ AddressBudget!Cardinality(S) = Cardinality(S)
         /\ AccountBudget!Cardinality(S) = Cardinality(S)
         /\ ApiBudget!Cardinality(S) = Cardinality(S)
BY DEF Cardinality, AddressBudget!Cardinality, AccountBudget!Cardinality, ApiBudget!Cardinality

\* What a step is to limiter l, in the words of Budget.
Takes(l) ==
    \E r \in Request, k \in Key :
        /\ r \in Waiting(l) /\ Waiting(l)' = Waiting(l) \ {r}
        /\ \E stay \in SUBSET places[l][k] :
              /\ Cardinality(stay) < Limit[l]
              /\ places'[l] = [places[l] EXCEPT ![k] = stay \cup {r}]
GivesBack(l) ==
    /\ Waiting(l)' \subseteq Waiting(l)
    /\ places'[l] \in [Key -> SUBSET Request]
    /\ \A k \in Key : places'[l][k] \subseteq places[l][k]

LEMMA NextSpends ==
  TypeOK /\ [Next]_vars => \A l \in Limiters : Takes(l) \/ GivesBack(l)
<1> SUFFICES ASSUME TypeOK, [Next]_vars, NEW l \in Limiters PROVE Takes(l) \/ GivesBack(l)
  OBVIOUS
<1>1. places' \in [Limiters -> [Key -> SUBSET Request]]
  BY NextTypeOK DEF TypeOK
<1>2. Onward
  BY NextTakes DEF TakesNone, TakesOne
<1>3. Waiting(l)' \subseteq Waiting(l)
  BY <1>2 DEF Onward, Waiting
<1>4. CASE places'[l] = places[l] \/ TakesNone
  BY <1>1, <1>3, <1>4 DEF GivesBack, TakesNone
<1>5. ASSUME NEW k \in Key, NEW r \in Request, TakesOne(l, k, r) PROVE Takes(l)
  <2>1. r \in Waiting(l) /\ Waiting(l)' = Waiting(l) \ {r}
    BY <1>5 DEF TakesOne, Waiting
  <2>2. places[l][k] \in SUBSET places[l][k] /\ Cardinality(places[l][k]) < Limit[l]
    BY <1>5 DEF TakesOne, Allow
  <2>3. places'[l] = [places[l] EXCEPT ![k] = places[l][k] \cup {r}]
    BY <1>5 DEF TakesOne, Allow, TypeOK
  <2> QED
    BY <2>1, <2>2, <2>3 DEF Takes
<1>6. ASSUME NEW m \in Limiters, NEW k \in Key, NEW r \in Request, TakesOne(m, k, r), m # l
      PROVE  places'[l] = places[l]
  BY <1>6 DEF TakesOne, Allow, TypeOK
<1> QED
  BY <1>4, <1>5, <1>6, NextTakes

\* Each of the three limiters is a budget, whatever the handlers do between one and
\* the next: nobody asks one twice, takes a place it does not have, or takes one
\* under two keys (api.go:24-42, 150-176).
THEOREM LimitersAreBudgets == Spec => KeepsBudgets
<1>1. Init => AddressBudget!Init /\ AccountBudget!Init /\ ApiBudget!Init
  BY DEF Init, Nothing, Waiting, Before, Limiters,
         AddressBudget!Init, AccountBudget!Init, ApiBudget!Init
<1>2. TypeOK /\ [Next]_vars => [AddressBudget!Next]_(AddressBudget!spent)
  <2> SUFFICES ASSUME Takes("loginByIP") \/ GivesBack("loginByIP") PROVE AddressBudget!Next
    BY NextSpends DEF Limiters
  <2> QED
    BY SameCardinality DEF Takes, GivesBack, AddressBudget!Next, AddressBudget!Take,
       AddressBudget!GiveBack
<1>3. TypeOK /\ [Next]_vars => [AccountBudget!Next]_(AccountBudget!spent)
  <2> SUFFICES ASSUME Takes("loginByAccount") \/ GivesBack("loginByAccount")
               PROVE  AccountBudget!Next
    BY NextSpends DEF Limiters
  <2> QED
    BY SameCardinality DEF Takes, GivesBack, AccountBudget!Next, AccountBudget!Take,
       AccountBudget!GiveBack
<1>4. TypeOK /\ [Next]_vars => [ApiBudget!Next]_(ApiBudget!spent)
  <2> SUFFICES ASSUME Takes("apiByIP") \/ GivesBack("apiByIP") PROVE ApiBudget!Next
    BY NextSpends DEF Limiters
  <2> QED
    BY SameCardinality DEF Takes, GivesBack, ApiBudget!Next, ApiBudget!Take, ApiBudget!GiveBack
<1>5. Spec => AddressBudget!Spec /\ AccountBudget!Spec /\ ApiBudget!Spec
  BY <1>1, <1>2, <1>3, <1>4, SignInTypeCorrect, PTL
     DEF Spec, AddressBudget!Spec, AccountBudget!Spec, ApiBudget!Spec
<1> QED
  BY <1>5 DEF KeepsBudgets

=============================================================================
