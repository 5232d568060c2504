--------------------------- MODULE Notifications ---------------------------
(***************************************************************************)
(* NSNotificationCenter: registration, removal and posting.  A post calls  *)
(* guest code for every observer of a copied list, and that code may       *)
(* register, remove, release and post in turn.                             *)
(***************************************************************************)
EXTENDS Integers, Sequences, FiniteSets, SequencesExt

CONSTANTS Observers,       \* objects that observe
          Names,           \* names of notifications
          Posters,         \* objects that post
          MaxRegistered,   \* bound on the registrations under one name
          MaxNested        \* bound on posts inside posts

anyObject == "any"

ASSUME NotificationsConstants ==
    /\ MaxRegistered \in Nat \ {0} /\ MaxNested \in Nat \ {0}
    /\ IsFiniteSet(Names) /\ anyObject \notin Observers \cup Posters

VARIABLES
    observers,   \* per name: the list of registrations
    obsRefs,     \* reference counts of the observers
    obsOwned,    \* the guest's own references to them
    posts,       \* the posts that are running, innermost last
    calledGone   \* the observer that a post wanted to call when it was gone

notifVars == <<observers, obsRefs, obsOwned, posts, calledGone>>

\* What a running post keeps: the rest of its list, its poster, and the
\* receiver of the message that is being processed.
Frame(list, who) == [rest |-> list, poster |-> who, current |-> anyObject]

NotificationsInit ==
    /\ observers = [n \in Names |-> <<>>]
    /\ obsRefs = [o \in Observers |-> 1]
    /\ obsOwned = [o \in Observers |-> 1]
    /\ posts = <<>> /\ calledGone = anyObject

\* Guest code runs outside of all posts, or in the method of an observer.
GuestRuns == posts # <<>> => Last(posts).current # anyObject

Usable(o) == obsOwned[o] > 0 \/ \E i \in DOMAIN posts : posts[i].current = o

addObserver(o, n, obj) ==
    /\ GuestRuns /\ Usable(o) /\ Len(observers[n]) < MaxRegistered
    /\ obsRefs' = [obsRefs EXCEPT ![o] = @ + 1]
    /\ observers' = [observers EXCEPT ![n] = Append(@, [observer |-> o, object |-> obj])]
    /\ UNCHANGED <<obsOwned, posts, calledGone>>

Matches(r, o, obj) == r.observer = o /\ obj \in {anyObject, r.object}

\* remove_observers_internal: each registration that is removed is replaced
\* by the last one of the list (swap_remove), which is looked at next.
remove_observers_internal(list, o, obj) ==
    LET Loop[k \in 0..Len(list)] ==
            IF k = 0 THEN [left |-> list, i |-> 1]
            ELSE LET s == Loop[k - 1] IN
                 IF s.i > Len(s.left) THEN s
                 ELSE IF ~Matches(s.left[s.i], o, obj) THEN [s EXCEPT !.i = @ + 1]
                 ELSE [s EXCEPT !.left = [j \in 1..(Len(s.left) - 1) |->
                                             IF j = s.i THEN Last(s.left) ELSE s.left[j]]]
    IN  Loop[Len(list)].left

\* From one name or from all, and one release per registration.
removeObserver(o, ns, obj) ==
    /\ GuestRuns /\ Usable(o)
    /\ LET left == [n \in Names |-> IF n \in ns THEN remove_observers_internal(observers[n], o, obj)
                                    ELSE observers[n]]
           gone(n) == Len(observers[n]) - Len(left[n])
       IN  /\ observers' = left
           /\ obsRefs' = [obsRefs EXCEPT ![o] =
                            @ - FoldFunctionOnSet(+, 0, [n \in Names |-> gone(n)], Names)]
    /\ UNCHANGED <<obsOwned, posts, calledGone>>

guest_releases(o) ==
    /\ GuestRuns /\ obsOwned[o] > 0
    /\ obsOwned' = [obsOwned EXCEPT ![o] = @ - 1]
    /\ obsRefs' = [obsRefs EXCEPT ![o] = @ - 1]
    /\ UNCHANGED <<observers, posts, calledGone>>

\* postNotification: takes a copy of the list.
postNotification(n, who) ==
    /\ GuestRuns /\ Len(posts) < MaxNested
    /\ posts' = Append(posts, Frame(observers[n], who))
    /\ UNCHANGED <<observers, obsRefs, obsOwned, calledGone>>

Top == Len(posts)

\* A registration for another poster is passed over.
skip_observer ==
    /\ posts # <<>> /\ Last(posts).current = anyObject /\ Last(posts).rest # <<>>
    /\ Head(Last(posts).rest).object \notin {anyObject, Last(posts).poster}
    /\ posts' = [posts EXCEPT ![Top].rest = Tail(@)]
    /\ UNCHANGED <<observers, obsRefs, obsOwned, calledGone>>

\* A plausible slip: the receiver is not retained for the call.
call_observer_unretained ==
    /\ posts # <<>> /\ Last(posts).current = anyObject /\ Last(posts).rest # <<>>
    /\ LET r == Head(Last(posts).rest)
       IN  /\ r.object \in {anyObject, Last(posts).poster}
           /\ posts' = [posts EXCEPT ![Top].rest = Tail(@), ![Top].current = r.observer]
    /\ UNCHANGED <<observers, obsRefs, obsOwned, calledGone>>

\* The observer is retained, and its method begins.
call_observer ==
    /\ posts # <<>> /\ Last(posts).current = anyObject /\ Last(posts).rest # <<>>
    /\ LET r == Head(Last(posts).rest)
       IN  /\ r.object \in {anyObject, Last(posts).poster} /\ obsRefs[r.observer] > 0
           /\ obsRefs' = [obsRefs EXCEPT ![r.observer] = @ + 1]
           /\ posts' = [posts EXCEPT ![Top].rest = Tail(@), ![Top].current = r.observer]
    /\ UNCHANGED <<observers, obsOwned, calledGone>>

\* An observer of the copied list that has been deallocated before its turn:
\* retain panics.
call_gone_observer ==
    /\ posts # <<>> /\ Last(posts).current = anyObject /\ Last(posts).rest # <<>>
    /\ LET r == Head(Last(posts).rest)
       IN  /\ r.object \in {anyObject, Last(posts).poster} /\ obsRefs[r.observer] <= 0
           /\ calledGone' = r.observer
    /\ UNCHANGED <<observers, obsRefs, obsOwned, posts>>

\* Its method returns, and it is released.
observer_returns ==
    /\ posts # <<>> /\ Last(posts).current # anyObject
    /\ obsRefs' = [obsRefs EXCEPT ![Last(posts).current] = @ - 1]
    /\ posts' = [posts EXCEPT ![Top].current = anyObject]
    /\ UNCHANGED <<observers, obsOwned, calledGone>>

post_ends ==
    /\ posts # <<>> /\ Last(posts).current = anyObject /\ Last(posts).rest = <<>>
    /\ posts' = Front(posts)
    /\ UNCHANGED <<observers, obsRefs, obsOwned, calledGone>>

NotificationsNext ==
    /\ calledGone = anyObject
    /\ \/ \E o \in Observers :
             \/ guest_releases(o)
             \/ \E n \in Names, obj \in Posters \cup {anyObject} :
                   addObserver(o, n, obj) \/ removeObserver(o, {n}, obj)
             \/ removeObserver(o, Names, anyObject)
       \/ \E n \in Names, who \in Posters : postNotification(n, who)
       \/ skip_observer \/ call_observer \/ call_gone_observer \/ observer_returns \/ post_ends

\* A centre by itself.
NotificationsSpec == NotificationsInit /\ [][NotificationsNext]_notifVars

---------------------------------------------------------------------------
(* Properties *)

Registered(o) == {p \in Names \X (1..MaxRegistered) :
                     p[2] \in DOMAIN observers[p[1]] /\ observers[p[1]][p[2]].observer = o}

\* The count of an observer is exactly that of its registrations, its running
\* methods and its owners, and an observer whose method is running exists: also
\* when the method removes it from the centre, or gives up what was the last
\* reference, inside posts that are nested in posts ("In some cases, observer
\* could be removed during the processing of the notification, effectively
\* releasing it").
ReceiverAlive ==
    \A o \in Observers :
        /\ obsRefs[o] = obsOwned[o] + Cardinality(Registered(o))
                        + Cardinality({i \in DOMAIN posts : posts[i].current = o})
        /\ (\E i \in DOMAIN posts : posts[i].current = o) => obsRefs[o] > 0

\* The comment on that retain: "In some cases, observer could be removed during
\* the processing of the notification, effectively releasing it. [...] We need
\* to retain it for correctness."  So a removed observer does no harm to a post;
\* but each is retained in its own turn only, and the method of an earlier one
\* may have removed it from the list that the post goes on with a copy of.
NoneIsCalledGone == calledGone = anyObject

===========================================================================
