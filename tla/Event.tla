-------------------------------- MODULE Event --------------------------------
(***************************************************************************)
(* Event.h: an event with its map of handlers, and the subscriptions that  *)
(* remove them.  All of it runs on one thread, but a handler may subscribe *)
(* and unsubscribe, itself and others, clear the event and invoke it       *)
(* again: every call takes a step, and Invoke takes one per handler.       *)
(***************************************************************************)
EXTENDS Naturals, Sequences, FiniteSets

CONSTANTS MaxSubscribes, MaxInvokes,   \* bounds: calls
          MaxDepth                     \* bound: nested Invokes

VARIABLES handlers,       \* m_handlers: [id -> the subscriber that gave the handler]
          nextId,
          tokens,         \* valid Subscriptions: [id, who]
          stack,          \* Invokes under way, innermost last
          subscribes, invokes

vars == <<handlers, nextId, tokens, stack, subscribes, invokes>>

Init ==
    /\ handlers = <<>> /\ nextId = 0 /\ tokens = {} /\ stack = <<>>
    /\ subscribes = 0 /\ invokes = 0

Top == stack[Len(stack)]
(* The program, or the handler that runs, makes calls. *)
Running == stack # <<>> => Top.busy
With(id, who) == [i \in DOMAIN handlers \union {id} |-> IF i = id THEN who ELSE handlers[i]]
Without(ids) == [i \in DOMAIN handlers \ ids |-> handlers[i]]

----------------------------------------------------------------------------
(* The number of handlers serves as the id. *)
SubscribeByCount ==
    LET id == Cardinality(DOMAIN handlers) IN
    /\ Running /\ subscribes < MaxSubscribes
    /\ subscribes' = subscribes + 1
    /\ handlers' = With(id, subscribes)
    /\ tokens' = tokens \union {[id |-> id, who |-> subscribes]}
    /\ UNCHANGED <<nextId, stack, invokes>>

Subscribe ==
    /\ Running /\ subscribes < MaxSubscribes
    /\ subscribes' = subscribes + 1
    /\ nextId' = nextId + 1
    /\ handlers' = With(nextId, subscribes)
    /\ tokens' = tokens \union {[id |-> nextId, who |-> subscribes]}
    /\ UNCHANGED <<stack, invokes>>

(* Subscription::Unsubscribe, also from its destructor and assignment.     *)
Unsubscribe(token) ==
    /\ Running
    /\ handlers' = Without({token.id})
    /\ tokens' = tokens \ {token}
    /\ UNCHANGED <<nextId, stack, subscribes, invokes>>

Detach(token) ==
    /\ Running
    /\ tokens' = tokens \ {token}
    /\ UNCHANGED <<handlers, nextId, stack, subscribes, invokes>>

(* The subscriptions stay valid; they will erase nothing. *)
Clear ==
    /\ Running /\ handlers # <<>>
    /\ handlers' = <<>>
    /\ UNCHANGED <<nextId, tokens, stack, subscribes, invokes>>

(* Invoke copies the map; called is the set of handlers it has called.     *)
Invoke ==
    /\ Running /\ invokes < MaxInvokes /\ Len(stack) < MaxDepth
    /\ invokes' = invokes + 1
    /\ stack' = Append(stack, [copy |-> handlers, left |-> DOMAIN handlers, called |-> {}, busy |-> FALSE])
    /\ UNCHANGED <<handlers, nextId, tokens, subscribes>>

(* The next handler of the copy, in any order, if it is still subscribed.  *)
Visit(id) ==
    LET f == Top
        calls == id \in DOMAIN handlers IN
    /\ stack # <<>> /\ ~f.busy /\ id \in f.left
    /\ stack' = [stack EXCEPT ![Len(stack)] =
                    [f EXCEPT !.left = @ \ {id}, !.busy = calls,
                              !.called = IF calls THEN @ \union {id} ELSE @]]
    /\ UNCHANGED <<handlers, nextId, tokens, subscribes, invokes>>

HandlerReturns ==
    /\ stack # <<>> /\ Top.busy
    /\ stack' = [stack EXCEPT ![Len(stack)].busy = FALSE]
    /\ UNCHANGED <<handlers, nextId, tokens, subscribes, invokes>>

InvokeReturns ==
    /\ stack # <<>> /\ ~Top.busy /\ Top.left = {}
    /\ stack' = SubSeq(stack, 1, Len(stack) - 1)
    /\ UNCHANGED <<handlers, nextId, tokens, subscribes, invokes>>

Next ==
    \/ Subscribe \/ Clear \/ Invoke \/ HandlerReturns \/ InvokeReturns
    \/ \E token \in tokens : Unsubscribe(token) \/ Detach(token)
    \/ \E id \in 0..MaxSubscribes : Visit(id)

Spec == Init /\ [][Next]_vars

----------------------------------------------------------------------------
TypeOK ==
    /\ nextId \in 0..MaxSubscribes /\ subscribes \in 0..MaxSubscribes /\ invokes \in 0..MaxInvokes
    /\ DOMAIN handlers \subseteq 0..MaxSubscribes
    /\ tokens \subseteq [id : 0..MaxSubscribes, who : 0..MaxSubscribes]
    /\ Len(stack) <= MaxDepth
    /\ \A k \in DOMAIN stack : stack[k].busy \in BOOLEAN

(* However handlers subscribe, unsubscribe, clear and invoke while an      *)
(* Invoke is under way, each Invoke calls a handler at most once and       *)
(* misses none that was there when it began and still is; and a token      *)
(* never removes the handler of another subscriber: ids are not used       *)
(* again, so the check by id in Invoke finds the handler it copied.        *)
SubscribersCalledOnce ==
    /\ \A k \in DOMAIN stack :
          LET f == stack[k] IN
          /\ f.called \cap f.left = {}
          /\ \A id \in DOMAIN f.copy \cap DOMAIN handlers :
                id \in f.called \union f.left /\ handlers[id] = f.copy[id]
    /\ \A tk \in tokens : tk.id \in DOMAIN handlers => handlers[tk.id] = tk.who
=============================================================================
