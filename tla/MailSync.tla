------------------------------ MODULE MailSync ------------------------------
(***************************************************************************)
(* EmailSyncService and InboxService: the mails of a user's mailbox become *)
(* messages of the inbox.  A synchronisation searches since the last one,  *)
(* leaves each mail to a callback of its own, and writes its date when the *)
(* fetch ends, whatever the callbacks have done.                           *)
(*                                                                         *)
(* Time is in hours; IMAP's SINCE looks at the day only.                   *)
(***************************************************************************)
EXTENDS Peticiones

CONSTANTS
  Mails,       \* mails that will arrive, by messageId (or its md5 substitute)
  Sincs,       \* synchronisations: the cron's and those started by hand
  HorasDelDia,
  Margen,      \* hours that the search goes back before the last date
  Duracion,    \* bound: hours that a fetch may last (the code has none)
  MaxHora      \* bound: hours of a behaviour, under the 30 days of a first search

VARIABLES
  llegada,    \* [Mails -> hour of arrival, or -1]
  mensaje,    \* [Mails -> "ausente" or the status of the message]
  ultima,     \* user.emailSync.lastSyncDate, or -1
  hora,
  sinc,       \* [Sincs -> [fase, desde, inicio]], desde while connecting only
  vuelo,      \* callbacks in progress: <<sync, mail, "buscar" or "crear">>
  explicados, \* history: mails whose callback threw or died, or whose message was deleted
  pedido      \* history: [Mails -> last status asked for explicitly]

correoVars == <<llegada, mensaje, ultima, hora, sinc, vuelo, explicados, pedido>>
buzon == <<llegada, hora>>
bandeja == <<mensaje, pedido>>

Ausente == "ausente"
Estados == {"Nuevo", "Leido", "Archivado"}
Quieta == [fase |-> "libre", desde |-> 0, inicio |-> 0]

(* A mailbox whose mails of before, H, are in the inbox with a status that  *)
(* was asked for; it was never synchronised if there is none.               *)
Buzon(H, e) ==
  /\ llegada = [m \in Mails |-> IF m \in H THEN 0 ELSE -1]
  /\ mensaje = [m \in Mails |-> IF m \in H THEN e ELSE Ausente] /\ pedido = mensaje
  /\ ultima = (IF H = {} THEN -1 ELSE 0) /\ hora = 0
  /\ sinc = [s \in Sincs |-> Quieta]
  /\ vuelo = {} /\ explicados = {}

InitCorreo == \E H \in SUBSET Mails, e \in Estados : Buzon(H, e)

----------------------------------------------------------------------------
(* The world outside.                                                       *)

Llega(m) ==
  /\ llegada[m] = -1
  /\ llegada' = [llegada EXCEPT ![m] = hora]
  /\ UNCHANGED <<hora, ultima, sinc, vuelo, explicados, bandeja, peticiones>>

PasaUnaHora ==
  /\ hora < MaxHora
  /\ \A s \in Sincs : sinc[s].fase = "leyendo" => hora - sinc[s].inicio < Duracion
  /\ hora' = hora + 1
  /\ UNCHANGED <<llegada, ultima, sinc, vuelo, explicados, bandeja, peticiones>>

----------------------------------------------------------------------------
(* syncUserEmail and syncImap.                                              *)

(* Mutant: the search starts on the day of the last synchronisation.        *)
SinceSinMargen(u) == IF u = -1 THEN 0 ELSE (u \div HorasDelDia) * HorasDelDia

Since(u) ==
  IF u < Margen THEN 0 ELSE ((u - Margen) \div HorasDelDia) * HorasDelDia

(* The user is read before the connection.                                  *)
SyncUserEmail(s) ==
  /\ sinc[s].fase = "libre"
  /\ \A x \in vuelo : x[1] # s
  /\ sinc' = [sinc EXCEPT ![s] = [fase |-> "conectando", desde |-> Since(ultima), inicio |-> 0]]
  /\ UNCHANGED <<buzon, ultima, vuelo, explicados, bandeja, peticiones>>

(* An empty search ends the synchronisation and leaves the date alone.      *)
Buscar(s) ==
  LET hallados == {m \in Mails : llegada[m] # -1 /\ llegada[m] >= sinc[s].desde}
  IN  /\ sinc[s].fase = "conectando"
      /\ IF hallados = {}
         THEN sinc' = [sinc EXCEPT ![s] = Quieta] /\ UNCHANGED vuelo
         ELSE /\ sinc' = [sinc EXCEPT ![s] = [fase |-> "leyendo", desde |-> 0, inicio |-> hora]]
              /\ vuelo' = vuelo \cup {<<s, m, "buscar">> : m \in hallados}
      /\ UNCHANGED <<buzon, ultima, explicados, bandeja, peticiones>>

(* fetch.once('end'): updateLastSyncedUID, whatever is still in progress.   *)
FinDelFetch(s) ==
  /\ sinc[s].fase = "leyendo"
  /\ ultima' = hora
  /\ sinc' = [sinc EXCEPT ![s] = Quieta]
  /\ UNCHANGED <<buzon, vuelo, explicados, bandeja, peticiones>>

(* imap.once('error'), or a search that fails: the date is left alone.      *)
ErrorImap(s) ==
  /\ sinc[s].fase # "libre"
  /\ sinc' = [sinc EXCEPT ![s] = Quieta]
  /\ UNCHANGED <<buzon, ultima, vuelo, explicados, bandeja, peticiones>>

(* parseEmailToMessage: findByMessageId, and then createMessage, under the  *)
(* unique index on emailMetadata.messageId.                                 *)
FindByMessageId(s, m) ==
  /\ <<s, m, "buscar">> \in vuelo
  /\ vuelo' = (vuelo \ {<<s, m, "buscar">>})
                \cup (IF mensaje[m] = Ausente THEN {<<s, m, "crear">>} ELSE {})
  /\ UNCHANGED <<buzon, ultima, sinc, explicados, bandeja, peticiones>>

CreateMessage(s, m) ==
  /\ <<s, m, "crear">> \in vuelo
  /\ vuelo' = vuelo \ {<<s, m, "crear">>}
  /\ IF mensaje[m] = Ausente
     THEN mensaje' = [mensaje EXCEPT ![m] = "Nuevo"] /\ pedido' = [pedido EXCEPT ![m] = "Nuevo"]
     ELSE UNCHANGED <<mensaje, pedido>>
  /\ UNCHANGED <<buzon, ultima, sinc, explicados, peticiones>>

(* simpleParser or the database throws: counted, and never tried again by   *)
(* this synchronisation.                                                    *)
ErrorDeMail(s, m) ==
  /\ \E p \in {"buscar", "crear"} : <<s, m, p>> \in vuelo /\ vuelo' = vuelo \ {<<s, m, p>>}
  /\ muertes < MaxMuertes /\ muertes' = muertes + 1
  /\ explicados' = explicados \cup {m}
  /\ UNCHANGED <<buzon, ultima, sinc, bandeja, op, ops, solape>>

(* The process restarts.                                                    *)
Reinicio ==
  /\ muertes < MaxMuertes /\ muertes' = muertes + 1
  /\ sinc' = [s \in Sincs |-> Quieta]
  /\ vuelo' = {}
  /\ explicados' = explicados \cup {x[2] : x \in vuelo}
  /\ op' = [r \in Requests |-> Libre]
  /\ UNCHANGED <<buzon, ultima, bandeja, ops, solape>>

----------------------------------------------------------------------------
(* The inbox: a handler reads the message, and saves a status if it changed. *)

(* Mutant: a message that was read is marked so whatever its status.        *)
FindByIdSiempre(r, m) ==
  /\ mensaje[m] # Ausente
  /\ Comenzar(r, [paso |-> "guardar", m |-> m, leido |-> mensaje[m], nuevo |-> "Leido", visita |-> TRUE])
  /\ UNCHANGED correoVars

(* findById(): looking at a new message marks it as read.                   *)
FindById(r, m) ==
  /\ mensaje[m] = "Nuevo"
  /\ Comenzar(r, [paso |-> "guardar", m |-> m, leido |-> "Nuevo", nuevo |-> "Leido", visita |-> TRUE])
  /\ UNCHANGED correoVars

UpdateStatus(r, m, e) ==
  /\ mensaje[m] # Ausente
  /\ Comenzar(r, [paso |-> "guardar", m |-> m, leido |-> mensaje[m], nuevo |-> e, visita |-> FALSE])
  /\ UNCHANGED correoVars

(* message.save(): nothing when the status is the one that was read; an     *)
(* error when the message was deleted meanwhile.                            *)
GuardarEstado(r) ==
  LET q == op[r]
      escribe == mensaje[q.m] # Ausente /\ q.nuevo # q.leido
  IN  /\ q.paso = "guardar"
      /\ mensaje' = IF escribe THEN [mensaje EXCEPT ![q.m] = q.nuevo] ELSE mensaje
      /\ pedido' = IF mensaje[q.m] # Ausente /\ (~ q.visita \/ pedido[q.m] = "Nuevo")
                   THEN [pedido EXCEPT ![q.m] = q.nuevo] ELSE pedido
      /\ Terminar(r)
      /\ UNCHANGED <<buzon, ultima, sinc, vuelo, explicados>>

UpdateMessagesBatchStatus(M, e) ==
  /\ M # {} /\ \A m \in M : mensaje[m] # Ausente
  /\ Atomica
  /\ mensaje' = [m \in Mails |-> IF m \in M THEN e ELSE mensaje[m]]
  /\ pedido' = [m \in Mails |-> IF m \in M THEN e ELSE pedido[m]]
  /\ UNCHANGED <<buzon, ultima, sinc, vuelo, explicados>>

DeleteMessagesBatch(M) ==
  /\ M # {} /\ \A m \in M : mensaje[m] # Ausente
  /\ Atomica
  /\ mensaje' = [m \in Mails |-> IF m \in M THEN Ausente ELSE mensaje[m]]
  /\ pedido' = [m \in Mails |-> IF m \in M THEN Ausente ELSE pedido[m]]
  /\ explicados' = explicados \cup M
  /\ UNCHANGED <<buzon, ultima, sinc, vuelo>>

NextCorreo ==
  \/ \E m \in Mails : Llega(m)
  \/ PasaUnaHora
  \/ \E s \in Sincs :
       \/ SyncUserEmail(s) \/ Buscar(s) \/ FinDelFetch(s) \/ ErrorImap(s)
       \/ \E m \in Mails : FindByMessageId(s, m) \/ CreateMessage(s, m) \/ ErrorDeMail(s, m)
  \/ Reinicio
  \/ \E r \in Requests :
       \/ \E m \in Mails : FindById(r, m) \/ \E e \in Estados : UpdateStatus(r, m, e)
       \/ GuardarEstado(r)
  \/ \E M \in SUBSET Mails \ {{}} :
       DeleteMessagesBatch(M) \/ \E e \in Estados : UpdateMessagesBatchStatus(M, e)

----------------------------------------------------------------------------
(* Properties.                                                              *)

(* No mail is left behind: one that the next search will not look at is in  *)
(* the inbox or was deleted from it, is in a callback, or its callback      *)
(* failed; the margin makes up for what arrived between the search and the  *)
(* date that is written at the end.                                         *)
CorreoNoPerdido ==
  \A m \in Mails : llegada[m] # -1 /\ ultima # -1 /\ llegada[m] < Since(ultima) =>
    \/ mensaje[m] # Ausente
    \/ m \in explicados
    \/ \E x \in vuelo : x[2] = m

(* Until two requests overlap, a message has the status that was last asked *)
(* for: looking at it never takes it out of the archive, and a mail that is *)
(* found again by a later search leaves it alone.                           *)
EstadoPedido == ~ solape => \A m \in Mails : mensaje[m] = pedido[m]

BandejaFiel == CorreoNoPerdido /\ EstadoPedido
=============================================================================
