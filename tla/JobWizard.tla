------------------------------- MODULE JobWizard -------------------------------
(***************************************************************************)
(* internal/views/job_submission_wizard.go, with the configuration of      *)
(* internal/config/job_submission.go behind it and the submission of       *)
(* internal/dao/slurm_adapter.go in front: a template is chosen, a form is *)
(* made of layers of defaults, and what is on it is sent to the cluster.   *)
(* Everything runs on the goroutine of tview, the request included, so     *)
(* each handler is one step.  The 82 fields of a job are represented by    *)
(* one or two of each kind the code treats alike.                          *)
(***************************************************************************)
EXTENDS Integers, Sequences, FiniteSets, SequencesExt

CONSTANTS
  HardDefaults,      \* what showJobForm starts with
  FormDefaults,      \* formDefaults of the configuration
  TemplatesOf,       \* the templates of each tier, by tier
  TemplateSources,   \* tiers the configuration asks for
  ConfiguredHidden,  \* hiddenFields of the configuration, and by template name
  FieldOptions,      \* fieldOptions of the configuration, by field
  Offers,            \* what the cluster may offer: lists by field
  UserRecords,       \* records the cluster may have of the user
  Cwd,               \* the directory the program was started in
  Entries,           \* what a user may enter, by field
  IllTyped,          \* in the configuration: a value of another type than the field
  Malformed,         \* of that, what the validation of formats refuses
  MaxForms,          \* bound: forms opened
  MaxTouched,        \* bound: fields changed on one form
  MaxSubmits         \* bound: confirmations of one form

Unset == ""
Dropdown == {"partition", "qos", "account"}
Usual == {"name", "partition", "qos", "account", "cpus", "timeLimit", "workingDir",
          "gpus", "emailNotify", "email"}
Advanced == {"comment", "gres", "exclusive"}
Field == Usual \cup Advanced
Required == {"name", "partition"}   \* name stands for the script, too
NeverCleared == {"cpus"}            \* numbers whose empty text changes nothing

VARIABLES
  page,       \* what is in front
  form,       \* the form that is open
  accepted,   \* history: what the cluster has accepted, and from which form
  forms       \* forms opened

wizardVars == <<page, form, accepted, forms>>

(***************************************************************************)
(* Templates.                                                              *)
(***************************************************************************)

Tiers == <<"builtin", "config", "saved">>

\* ResolveTemplateSources: unknown names are dropped, and nothing means all.
Sources == LET known == TemplateSources \cap Range(Tiers)
           IN IF known = {} THEN Range(Tiers) ELSE known

\* A template replaces the one of its name where that is.
Place(list, t) ==
  IF \E i \in DOMAIN list : list[i].name = t.name
  THEN [i \in DOMAIN list |-> IF list[i].name = t.name THEN t ELSE list[i]]
  ELSE Append(list, t)

\* The values of a map of the configuration: what has the wrong type is
\* dropped, without a word.
FromMap(m) == [f \in Field |-> IF m[f] = IllTyped THEN Unset ELSE m[f]]

Tier(source) ==
  IF source = "config"
  THEN [i \in DOMAIN TemplatesOf[source] |->
          [TemplatesOf[source][i] EXCEPT !.values = FromMap(@)]]
  ELSE TemplatesOf[source]

MergeTemplates ==
  FoldLeft(Place, <<>>,
           FlattenSeq([i \in DOMAIN Tiers |->
                         IF Tiers[i] \in Sources THEN Tier(Tiers[i]) ELSE <<>>]))

NoTemplate == [name |-> "Custom Job", values |-> [f \in Field |-> Unset]]

(***************************************************************************)
(* The form.                                                               *)
(***************************************************************************)

\* A mutant: what is there is kept.
OverlayUnderneath(dst, src) == [f \in Field |-> IF dst[f] # Unset THEN dst[f] ELSE src[f]]

\* overlayJobDefaults: a layer can set a field and cannot empty one.
Overlay(dst, src) == [f \in Field |-> IF src[f] # Unset THEN src[f] ELSE dst[f]]

\* The account and QoS of the user, the user's name for want of an account, and
\* the working directory, each where the layers above left the field empty.
OfUser(user) ==
  [f \in Field |->
     CASE f = "account" -> IF user.account # Unset THEN user.account ELSE user.name
       [] f = "qos" -> user.qos
       [] f = "workingDir" -> Cwd
       [] OTHER -> Unset]

Preset(t, user) ==
  Overlay(OfUser(user), Overlay(Overlay(HardDefaults, FromMap(FormDefaults)), t.values))

\* hiddenFields, and those of the template of that name in the configuration,
\* wherever the chosen one comes from.
ExplicitlyHidden(t) ==
  ConfiguredHidden.all \cup
    (IF t # NoTemplate /\ t.name \in DOMAIN ConfiguredHidden.of
     THEN ConfiguredHidden.of[t.name] ELSE {})

\* An advanced field is shown when it has a value, any other always, and a
\* field the configuration hides never.
IsFieldHidden(f, values, t) ==
  f \in ExplicitlyHidden(t) \/ (f \in Advanced /\ values[f] = Unset)

\* There is a field for the address only if notification is asked for when
\* the form is made.
Shown(values, t) ==
  {f \in Field : ~IsFieldHidden(f, values, t)}
    \ (IF values["emailNotify"] = Unset THEN {"email"} ELSE {})

\* What the cluster offers and the configuration allows, in the order of the
\* configuration, or else whatever either has.
FilterFieldOptions(offered, allowed) ==
  LET both[i \in 0 .. Len(allowed)] ==
        IF i = 0 THEN <<>>
        ELSE IF allowed[i] \in Range(offered) THEN Append(both[i - 1], allowed[i])
        ELSE both[i - 1]
      intersection == both[Len(allowed)]
  IN CASE allowed = <<>> -> offered
       [] allowed # <<>> /\ offered = <<>> -> allowed
       [] OTHER -> IF intersection = <<>> THEN offered ELSE intersection

\* The entries of a dropdown; with none the field is a plain input field.
OptionsOf(f, offered) ==
  LET list == FilterFieldOptions(offered, FieldOptions[f])
  IN IF list = <<>> \/ f = "partition" THEN list ELSE <<Unset>> \o list

\* A dropdown begins with the entry that has the value of the field, or else
\* with its first, and by choosing it writes it into the job.
Chosen(list, value) ==
  IF list = <<>> \/ value \in Range(list) THEN value ELSE list[1]

(***************************************************************************)
(* A form has the template it was made from, the job its fields write to,  *)
(* the fields that are on it and the entries of its dropdowns; further, as *)
(* history, the fields the user has touched, how often it was sent, and    *)
(* how often the cluster accepted it without the program learning of it.   *)
(***************************************************************************)

NoForm == [template |-> NoTemplate, job |-> NoTemplate.values, shown |-> {},
           options |-> [f \in Dropdown |-> <<>>], touched |-> {}, submits |-> 0, lost |-> 0]

IsDropdown(f) == f \in Dropdown /\ form.options[f] # <<>>

Init == page = "closed" /\ form = NoForm /\ accepted = <<>> /\ forms = 0

Show ==
  /\ page = "closed"
  /\ page' = "templates"
  /\ UNCHANGED <<form, accepted, forms>>

CancelSelection ==
  /\ page = "templates"
  /\ page' = "closed"
  /\ UNCHANGED <<form, accepted, forms>>

\* The first entry of the list makes a job without template.  The lists and
\* the user record are fetched while the form is made, and each may be missing.
ShowJobForm(t) ==
  /\ page = "templates" /\ forms < MaxForms
  /\ \E offers \in Offers, user \in UserRecords :
       LET values == Preset(t, user)
           visible == Shown(values, t)
           lists == [f \in Dropdown |-> IF f \in visible THEN OptionsOf(f, offers[f])
                                                         ELSE <<>>]
       IN form' = [NoForm EXCEPT
            !.template = t, !.shown = visible, !.options = lists,
            !.job = [f \in Field |-> IF f \in Dropdown THEN Chosen(lists[f], values[f])
                                                       ELSE values[f]]]
  /\ page' = "form"
  /\ forms' = forms + 1
  /\ UNCHANGED accepted

\* The user changes a field that is on the form.
Edit(f, v) ==
  /\ page = "form" /\ f \in form.shown
  /\ v # form.job[f] /\ (f \in NeverCleared => v # Unset)
  /\ IsDropdown(f) => v \in Range(form.options[f])
  /\ Cardinality(form.touched \cup {f}) <= MaxTouched
  /\ form' = [form EXCEPT !.job[f] = v, !.touched = @ \cup {f}]
  /\ UNCHANGED <<page, accepted, forms>>

\* Cancel and Esc lead back to the templates, and the form is forgotten.
CancelForm ==
  /\ page = "form"
  /\ page' = "templates" /\ form' = NoForm
  /\ UNCHANGED <<accepted, forms>>

Preview ==
  /\ page = "form"
  /\ page' = "preview"
  /\ UNCHANGED <<form, accepted, forms>>

(***************************************************************************)
(* Submitting.                                                             *)
(***************************************************************************)

Valid == /\ \A f \in Required : form.job[f] # Unset
         /\ form.job["timeLimit"] \notin Malformed \cup {Unset}

\* convertJobSubmissionToJobCreate: an address goes with a notification only,
\* and generic resources take the place of a number of GPUs.
Request(j) == [j EXCEPT !["gpus"] = IF j["gres"] # Unset THEN Unset ELSE @,
                        !["email"] = IF j["emailNotify"] = Unset THEN Unset ELSE @]

SubmitInvalid ==
  /\ page = "form" /\ ~Valid
  /\ page' = "error"
  /\ UNCHANGED <<form, accepted, forms>>

Sends == page = "form" /\ Valid /\ form.submits < MaxSubmits
Accept == accepted' = Append(accepted, [number |-> forms, form |-> form,
                                        request |-> Request(form.job)])

\* A mutant: the form stays where it was.
SubmitReopens ==
  /\ Sends /\ Accept
  /\ page' = "preview" /\ form' = [form EXCEPT !.submits = @ + 1]
  /\ UNCHANGED forms

\* The form is removed while the message of success is in front.
Submit ==
  /\ Sends /\ Accept
  /\ page' = "success" /\ form' = NoForm
  /\ UNCHANGED forms

\* The request fails, or its answer does; the form is kept for another try.
SubmitFails ==
  /\ Sends
  /\ \/ form' = [form EXCEPT !.submits = @ + 1] /\ UNCHANGED accepted
     \/ form' = [form EXCEPT !.submits = @ + 1, !.lost = @ + 1] /\ Accept
  /\ page' = "error"
  /\ UNCHANGED forms

\* OK in a message, Esc in the preview.
CloseFront ==
  /\ page \in {"error", "preview", "success"}
  /\ page' = IF page = "success" THEN "closed" ELSE "form"
  /\ UNCHANGED <<form, accepted, forms>>

WizardNext ==
  \/ Show
  \/ CancelSelection
  \/ \E t \in Range(MergeTemplates) \cup {NoTemplate} : ShowJobForm(t)
  \/ \E f \in Field : \E v \in Entries[f] : Edit(f, v)
  \/ CancelForm
  \/ Preview
  \/ SubmitInvalid
  \/ Submit
  \/ SubmitFails
  \/ CloseFront

-----------------------------------------------------------------------------

WizardTypeOK ==
  /\ page \in {"closed", "templates", "form", "preview", "error", "success"}
  /\ form = NoForm <=> page \in {"closed", "templates", "success"}
  /\ DOMAIN form.job = Field /\ form.touched \subseteq form.shown
  /\ \A f \in Dropdown : IsDropdown(f) => form.job[f] \in Range(form.options[f])
  /\ forms \in 0 .. MaxForms
  /\ form.submits \in 0 .. MaxSubmits /\ form.lost \in 0 .. form.submits

\* Nothing is sent unseen: a value in a request was on the form, or in a field
\* that the configuration hides, or is the address for a notification the user
\* has only now asked for.  And what the user has left alone is the value of
\* the first layer that has one, template, configuration, program, unless a
\* dropdown does not offer it: then, with nobody asking, its first entry is sent.
RequestIsForm ==
  \A i \in DOMAIN accepted :
    LET sent == accepted[i].form
        layers == <<sent.template.values, FromMap(FormDefaults), HardDefaults>>
    IN /\ \A f \in Field : accepted[i].request[f] # Unset =>
            \/ f \in sent.shown \cup ExplicitlyHidden(sent.template)
            \/ f = "email" /\ "emailNotify" \in sent.touched
       /\ \A f \in Field \ sent.touched, k \in DOMAIN layers :
            LET value == layers[k][f]
                list == IF f \in Dropdown THEN sent.options[f] ELSE <<>>
            IN value # Unset /\ (\A l \in 1 .. k - 1 : layers[l][f] = Unset) =>
                 sent.job[f] = IF list # <<>> /\ value \notin Range(list) THEN list[1] ELSE value

\* A form that was sent and answered is gone: a second job comes of it only
\* when the answer to the first was lost.
OneJobPerAnswer ==
  \A i, j \in DOMAIN accepted :
    i < j /\ accepted[i].number = accepted[j].number =>
      accepted[i].form.lost < accepted[j].form.lost

=============================================================================
