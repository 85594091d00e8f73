# A verification of the Graffix Clothing shop

The repository holds a small PHP shop on an Apache server: a public front
controller with an image-upload script next to it, and, outside the web tree,
the controllers, view models, data access classes and the session library.
These modules model its control, check it with TLC on small instances, and prove
the most important facts about it with TLAPS for every instance.

Paths are below `src/`. **W** is
`public website side/Apache/htdocs/Team-1-Project/`, **T** is
`private website side/cis4270/Team-1-project/` and **C** is
`private website side/cis4270/common/`.

## 1. Inventory

| Component | Code | State it keeps | Operations | What makes it correct |
|---|---|---|---|---|
| Request broker | W`index.php`, T`controllers/DefaultController.php`, T`includes/AllowListAchtung.php` | none between requests | read `ctlr` and `action` from the query or the body, choose a controller, run a method | every request ends in one method of its controller; of the form handlers a GET reaches only the one that the allow list names |
| Controllers | T`controllers/*.php` | none | login, logout, register; list, view, add, edit, delete products; cart | protected methods check the login before anything else |
| Login sessions | C`includes/sessionFunctions.php`, T`viewModels/LoginVM.php`, `AdminController::loginPOST/logout` | `$_SESSION` per session id, the ids in the browsers' cookie jars | `session_start`, regenerate, destroy, the guard, the store at the end of the script | a granted page follows a recent login of that client; sessions never mix; logouts and logins last; everybody is answered |
| Product catalogue | T`db/ProductDAM.php`, T`viewModels/ProductsVM.php` | table `products` | INSERT, UPDATE, DELETE, three SELECTs | each request takes effect at most once; deleted products stay deleted; answers show what was done |
| Image upload | C`includes/FileUploadFunction.php` (and its copy in W), the script in T`views/addProduct.php` and `editProduct.php` | files in `picturesuploaded`, the Submit button of each page | validate, look for the name, move, chmod, answer | only checked files are stored; no later upload replaces one; the button tells the truth |
| User accounts | T`viewModels/RegisterVM.php`, T`db/UserDAM.php` | table `users` | register, look up at login | who has registered can log in; a password that was not registered lets nobody in |
| CSRF tokens | C`includes/csrf_token_functions.php` | one token and its time in `$_SESSION` | create one for each form; no handler validates it | the newest form carries the token its session has; tokens never change hands or come back |
| Validation and sanitisation | C`includes/validationFunctions.php`, `sanitizationFunctions.php` | none | pure functions on parameters | |
| Images and text | T`includes/Image.php`, `WebText.php` | none | scale an image, tag paragraphs and lists | proportions are kept as well as whole pixels allow; words stay, tags nest, all line ends count alike |
| Categories | T`db/CategoryDAM.php` | table `categories`, never written | two SELECTs | |
| Database access | C`db/*.php`, `dbSecure/` | one connection per script | connect | |
| Views | T`views/*.php`, T`viewModels/Page.php`, `MessageVM.php` | none | print HTML | the forms offer only what the handlers expect |
| Menu scripts of the public page | `sideSlide` in W`js/scripts.js`, W`js/mfn.menu.js`; the page is T`views/index-be-store.php` | classes of elements, what is on the screen, effects queues, bound handlers | clicks, taps, resizes, the end of an effect | once the effects are over, the screen shows what the classes say; the menu is where it can be reached |
| Superseded variants | the other `*Achtung.php` classes and `DAM` variants | | | not loaded |
| Apache distribution, theme | `public website side/Apache/` besides W's scripts | | | vendored |

**Interaction.** A browser sends a request with its cookie; `index.php` opens the
session, routes, and calls one controller method. A protected method calls the
guard of the session library, then a view model, which calls the data access
classes; the view prints a page with the forms and links that the next requests
come from. The upload script is called by a page in the background, without the
broker, and shares with the rest only the file name that the form posts. The menu
scripts run in the browser and talk to no other part.

**What is hard.** Nothing in the code runs twice at a time by itself, but the web
server runs one script per request: tabs of one browser meet in the session
store, clients meet in the `products` table between the statements of their
scripts (no transaction, no lock), and uploads meet between `file_exists` and
`move_uploaded_file`. Answers get lost or arrive out of order. Sessions expire
while pages are open. Forms are sent late, after their product has gone, and
again, because a POST is answered with a page that a refresh repeats. Any
statement can fail after an earlier one has succeeded. In the browser, handlers change
classes at once, but what they show or hide waits in jQuery's effects queues, and the
handler of a resize runs some time after it. `PROJECT.json` lists these
hazards at their lines with the properties that cover them.

## 2. Modules

| Module | Models | Role |
|---|---|---|
| `Routes` | the routing of one request as a function | used by `Broker` and `AdminSession` |
| `Broker` | `index.php` statement group by statement group | checked against `Routes!Route` |
| `BrokerProofs` | theorems about it | |
| `AdminSession` | the sessions: clients, scripts, engine, login, logout, guard, clock | safety, liveness |
| `AdminSessionProofs` | theorems about it | |
| `CatalogStore` | what the catalogue promises, without scripts | the abstract specification |
| `Catalog` | one action per SQL statement of concurrent scripts | implements `CatalogStore` |
| `CatalogProofs` | theorems about it, the refinement included | |
| `Upload` | the page's upload and `upload_file()` | |
| `Listing` | the edit forms of products around `Upload` | composition |
| `ListingProofs` | theorems about `Upload` and `Listing`, that the second implements the first included | |
| `Accounts` | registration and the login's look-up, over concurrent scripts | |
| `AccountsProofs` | theorems about it | |
| `Shop` | `Routes`, `AdminSession` and `Catalog` in one script | composition |
| `ShopProofs` | theorems about it, that it implements both parts included | |
| `CsrfTokens` | the forms' tokens around `AdminSession` | composition |
| `CsrfTokensProofs` | theorems about it, that it implements `AdminSession` included | |
| `WebText`, `ImageScale` | the two helper classes of the views | |
| `SideSlide`, `MuffinMenu` | the two menu scripts | liveness |
| `ViewProofs` | theorems about the two, `ImageScale` and `WebText` | |
| `MC*` | instances for TLC: the requests the site's own pages send, file names, symmetry | |

### Broker and Routes

A request is a method, a `ctlr` and an `action`; `"none"` is a missing parameter
and `"other"` any name the code does not mention. `ReadGet` and `ReadPost` are the
two branches that read the parameters, `SelectController` the `switch`, `Run` is
`DefaultController::run`. `Routes!Route` says the same as one function, so that the
other modules can use it (`IsLogin`, `IsLogout`, `IsProtected`, `Method`). Both take the names
that exist and are allowed from the same tables (`ControllerMethods`, `AllowList`, `SplitActions`), so
`RoutedAsDefined` compares the two ways of routing and not the tables; a wrong entry would show in
`Shop`. `FormHandlers` are the methods whose view models read the body only. PHP compares
method names without case; the model has one spelling per name.

### AdminSession

A worker is a script slot of the web server. Its `pc` walks through

    idle -Issue-> queued -Start*Session-> opened -Dispatch->
        login | logout | guard | render
    login -LoginVerified-> verified -CompleteLogin-> guard
    guard -GuardPasses-> page -Finish-> sentPage -Deliver-> idle
    any refusal -> render -Finish-> sent -Deliver-> idle

`store` is the session files, `jar` the cookie in each browser, `open` the id a
script has locked, `sess` its `$_SESSION`, reduced to what the guard reads.
`AfterSuccessfulLogin` is called by `LoginVerified` (in `LoginVM::getInstance`) and
once more by `CompleteLogin` (in `loginPOST`), as in the code.
`madeFor`, `logins`, `overlap` and `standing` are history that no action reads.

The session engine is not in the repository. Assumed of it, as PHP's file handler
behaves: a script has its id exclusively from `session_start()` until the id is
given up; an id with no stored data is an empty session; `session_regenerate_id()`
stores the data under the old id and goes on under a fresh one; the old id's data
stays; a destroyed session stores nothing at the end of the script. The checks on
address and user agent are constants of the code that are switched off. A failing
query throws and ends the script (PHP 8, `httpd.conf:538`).

### Catalog

`Submit` takes what a page offers: category and product links, the empty form, and
the forms of any page shown so far, however old and however often; pages may be open
before the first step, and a request may come without the id its form would have
(`Offered`). `Admit` and
`Refuse` are the two outcomes of the guard, which `AdminSession` models. Every other
action is one statement: `InsertProduct`, `UpdateProduct`, `DeleteProductById`,
`ReadProduct`, `ReadProductStore`, `ReadProductsByCategoryId`; `Show` prints the page
and so offers its forms, `Fail` is a failing statement. A product is its category,
its owner and one value for its other fields; what the UPDATE's quoting makes of those is
in `Listing`. `Listed` is the category of a list: without one in the request it is the first
(`FirstCategory`), with a blank one it is none. Assumed of the database: single
statements are atomic, and `AUTO_INCREMENT` does not hand out an id again. The
default page reads three featured products and shows none of them, since its view,
`index-be-store.php`, is static; it is not among the requests.

`CatalogStore` has `Add`, `Change`, `Remove`, each of them one step between being asked
and being closed. The refinement maps a script to *free*, *asked* or *applied*.

### Upload

`Choose` is the `onchange` handler, which sends the form at once; `RejectFile`,
`RefuseName`, `AcceptName`, `MoveFile`, `MoveFails`, `Chmod` and `ChmodFails` are the
steps of `upload_file()`; `Arrive` is the success handler, which sets the button;
`Submit` posts the name the form holds, whatever the button's last answer was about. A page
cannot tell the answer after a failed move from a good one (`gotNotStored` and `gotOk`
differ in the model only); `Unheard` are the phases in which an upload has left nothing under
its name and its page has not been shown so. The checks on a file's contents are one
boolean per file, its contents are the upload it came with, and
`sanitize_file_name()` is the function `Sanitize` on names.

### Accounts

A registration runs `AcceptInput` or `RefuseInput` (`RegisterVM::getInstance` and
`validateUserInput`), then `WriteUser` or `WriteFails` (`password_hash` and the INSERT of
`UserDAM::writeUser`), then `Confirm` (the success page). A login runs `ReadUser` or
`ReadFails` (`UserDAM::readUser`) and `Authenticate` (`LoginVM::authenticateUser`); what
an accepted login does to the session is in `AdminSession`. `HPost` is `hPOST()`,
`ValidateUserInput` the method of that name; the login's password is not
sanitised, the registration's is, as in the code.

Texts are values of a set. `Escape` is the sanitising filter, `Trim` is `trim()`, `Long`
and `TenDigits` are what the two checks take, `Key` is the hash as `password_verify()`
compares it (bcrypt reads the first 72 bytes, so `Key` may map two texts to one). `Address`
is what the table's collation compares of an address. Nothing in the code looks
for an existing account; whether the table refuses a second one is up to its
definition, which the repository does not have, so `unique` is either, fixed by
`Init`. `SELECT` without `ORDER BY` gives any of the matching rows first.
`origin`, `confirmed` and `before` are history that no action reads.

### Shop

`Shop` EXTENDS `AdminSession` and instantiates `Catalog` on its own variables; a worker of
the one is a script of the other. `Send` issues a request and, if its method asks the
catalogue for something (`CatalogKind`, from `Routes!Method`), submits one: `Carries` says
which parameters reach the view model, because `getDeleteInstance()`, `getEditProductInstance()`
and `getAddEditInstance()` read the body only and `getProductInstance()` the query only.
`Dispatched` is the broker's call, `Grant` and `Deny` the guard, whose outcome is `Catalog`'s
`Admit` or `Refuse`; `Query` is a statement with the session still open, `End` the end of the
script, `Answer` its delivery. `sentOut` and `grantedAt` are history.

### CsrfTokens

`kept` is the token in each stored session, `token` the one in each script's `$_SESSION`,
`printed` the one in the forms of the page being made. Every action is one of
`AdminSession` with what it does to the token: `LoadSession`, `Regenerate` (the old id keeps a
copy), `Destroy`, `CreateToken` (a view with a form), `StoreSession`, `Receive`. Nothing
reads the token, because no handler calls `csrf_token_is_valid()`; the properties are about
what that function would answer. `madeTo` and `latest` are history.

### Listing

`row` is the products table, `fields` the edit form of each page, `underway` the forms
submitted and not yet applied. `OpenForm` prints the product's text into the form (`Printed` is
what a browser reads back of it: the views escape nothing, so a quotation mark cuts
it), `Type` changes it, `ChooseFile`, `UploadStep`, `SubmitForm` and `LeaveForm` are `Upload`'s steps.
`ApplyForm` is the UPDATE, which replaces every field and puts each between apostrophes as it
is: `Literal` is what the database reads of a text or a name so written (it eats a backslash), and
has no value for one whose apostrophe ends the literal. The statement then fails
(`UpdateFails`) and the product stays as it was; an apostrophe that is followed by more SQL is not
among the texts. `last` is history.

### WebText and ImageScale

A description is a sequence of tokens: CR, LF, blank, star, and one token for each
stretch of other text. One action stands for each statement of `addTags()` and each round of
its loop, and `GetFirstParagraph` for the `substr()` of `getFirstParagraph()`. The product pages
(`productView.php`, `adminProductView.php`) call `addTags()` on their description and
`scaleWidth()` on their image; `getFirstParagraph()` and `scaleDimensions()` are called in
`home.php` alone, a view that no controller loads.

`ImageScale` has the constructor and the two methods that compute. `file` is what is at the path: a
picture with its two sides, nothing (`Missing`), or something that is no picture (`NotPicture`: a file of
another kind, or the directory itself when the product has no image name). In the last
case `$path` stays set and `getimagesize()` returns false, whose offsets are null; the division by
null or by a side of zero throws and ends the page (`DivideByZero`). The code divides in floating
point and PHP's `round()` takes a value next to a half for that half; the model rounds
the exact quotient.

### SideSlide and MuffinMenu

`SideSlide` has the handlers of `sideSlide()` as actions and one FIFO queue of effects per
element, of which `Finish` takes the first. The window is `narrow`, `wide`, or in the `gap`
between the width the style sheet compares and the one `reload()` compares, which leaves
out the scroll bar. The overlay has the handler of the close link too, but no style
that gives it a place on the screen, so it cannot be clicked. `early` is history: the panel
was opened before the menu had been moved into it. `Settles(e)` is what an element will be once
its queue is empty.

`MuffinMenu` counts the handlers that `doMenu()` has bound: a wide window binds
`mouseenter` and `mouseleave` on every resize and unbinds nothing, a narrow one binds one
`click` to the buttons. `Tap` is the `mouseenter` and the `click` that a touch screen delivers
together. The items are those of the menu itself. The columns of the page's megamenu are left out: they
have submenus and a button too, but the selector of `mfn.menu.js:72` binds no handler of the mouse to
them. `everMobile` is history; `Relayout` is a resize, `EndFade` the end of an effect. Both modules
state the types of their variables (`TypeOK`, `MuffinTypes`) and the runs list neither: they are
parts of the invariants that are proved.

## 3. Runs

| Run | Instance | Question | States |
|---|---|---|---|
| `pages` | `Broker`: every action name of the site, 3 methods, 5 controllers. `WebText`: every text of up to 6 tokens with 2 words. `ImageScale`: nothing, no picture, or a picture of up to 310 by 310 pixels, in a box of 150. `SideSlide`: 3 resizes and 2 effects waiting per element. `MuffinMenu`: 2 items and 3 bindings | does the script route as `Routes` says, and which form handler can a GET reach? What do `addTags()` and the scaling return? What is on the screen once the effects are over, and does the menu come back? | 1.26 M |
| `tabs` | 1 browser, 2 scripts, 3 requests, 3 ticks, login valid for one more, no symmetry | do logins and logouts last while tabs overlap and sessions expire, is no update lost, is each waiting tab answered? | 0.63 M |
| `tokens` | 2 browsers, 2 scripts, 3 requests, 3 ticks, login valid for one more | do sessions or tokens mix, does the guard open without a recent login, which forms would pass? | 2.6 M |
| `old_id` | 1 browser, 1 request | is the old id invalidated? It is not | |
| `catalog` | 2 scripts, 2 categories, 2 owners, 3 requests | effects and answers of concurrent and late requests; refinement | 0.48 M |
| `missing` | 1 script, 1 request | does saving a product that is not in the database add it? It does not | |
| `shop` | 1 browser, 2 scripts, 3 requests of 9 kinds with either method, 2 ticks | what has to come before a change of a product? | 3.8 M |
| `accounts` | 2 scripts, 3 requests out of 12 registrations and 9 logins, 2 spellings of one address, table unique or not | who gets in with which password | 0.12 M |
| `password_length` | 1 script, 1 request | has every user typed a long enough password? No | |
| `listing` | 2 products, 2 pages, 2 uploads, 2 names that clean to one, 4 texts: one that stays as it is, one that printing cuts, one whose backslash the database eats, one that breaks the statement | what an upload and its button may be relied on for, whose image and text a product ends up with | 4.2 M |
| `overlap` | 2 pages, one upload each | is a stored file ever replaced? It is | |
| `first_paragraph` | `WebText` alone | is what `getFirstParagraph()` returns the first paragraph? Not if it is a list | |

**Bounds.** `MaxRequests`, `MaxSid`, `MaxClock`, `MaxId`, `MaxSubmissions`,
`MaxChoices`, `MaxUploads`, `MaxTokens`, `MaxSide`, `MaxQueue`, `MaxResizes` and `MaxBound` only stop the
state space from growing. A request needs at most three
session ids, and `MaxSid` is at least `3 * MaxRequests`, so ids never run out before
requests do. Three requests are enough for a login and a logout with another request
that overlaps both, for one client to log in while the other asks twice, and for a logout, a
login and a form sent between them. Three
submissions are enough to open a form, delete its product and send the form, since pages
may be open at the start; `MaxId` lets each of them be an addition. Three requests of `Accounts`
are two registrations of an address and a login. Two uploads are an overlap between two
pages or within one, and what is proved of uploads and listings holds for any number. Two
waiting effects are one that runs and one that joins it; three resizes make a window wide,
narrow and wide again. A box of 150 pixels is the pages' own, and twice it is where a
side of a strip starts to round to zero. Scripts, browsers, pages and products
are interchangeable, hence the symmetry of the safety runs; `tabs` and `pages` have none.

`Upload` runs inside `Listing`, whose definitions it keeps; the same holds of `AdminSession` in
`CsrfTokens` and `Shop`. `MCPages` holds five modules that share no state: `used` says which of them
a behaviour is about, and the others rest in one of their initial states.

**Fairness.** Weak fairness per script slot: the server runs a script that can
run, and an answer arrives or is lost. Clients need not send anything and time
may stand still. Weak fairness is enough for the session lock only because the number of
requests is bounded: a waiter cannot be overtaken for ever. With an unbounded stream
of requests the engine's lock promises no order and neither does the model.
In the browser, weak fairness of `Reload` and of each `Finish`: the plugin's timer fires once
the window rests, and jQuery's timer ends every effect it has started. Nobody has
to click, point or resize.

**Properties and what they show.**

- `RoutedAsDefined`: the statements of `index.php` and `Routes!Route` select the same method.
  `GetRunsListedFormHandler`: `index.php:28` tests `!$action !== ''`, which always holds. Because of
  that, every GET clears `$post`, and together with the allow list this keeps GETs from
  the form handlers but one: `deleteProduct` is in the list. That it deletes nothing then is
  `GetChangesNothing`.
- `GrantFollowsLogin`, `SessionsOwned`: no regenerated, destroyed, lost or reused id lets a
  client in without its own recent login.
- `NoLostUpdate`: a script never works on stale session data; its loaded copy is
  the stored one until it gives the id up itself.
- `LogoutHolds`, `LoginHolds`: after a logout that no login of the same browser overlapped,
  its cookie leads to a session without a login, whatever its other tabs have in flight;
  after an accepted login that nothing overlapped, to one with it, until it expires. `EveryRequestAnswered`: no script keeps
  a session's lock from the tabs that wait for it.
- `TokensOwned`, `LatestFormMatches`, `NoTokenRevived`: if the handlers did validate the
  tokens, the newest form of a browser would pass, unless something has overlapped it, and
  no other browser's form and no form of a replaced token ever would.
- `WriterSeesWrite`, `PageAgrees`: the second query of a script agrees with the first
  unless another script wrote between them; that case is the hazard itself, nothing in the code
  guards against it, and the properties say only that nothing else goes wrong.
  `DeleterSeesGone` needs no such exception.
- `NeverResurrected`: a late form never brings a deleted product back; this rests on ids not
  being reused.
- `ImplementsStore`: the scripts implement `CatalogStore`.
- `ChangesFollowLogins`: a product changes only in a script whose browser has logged in
  within `$max_elapsed` of the guard, and whose session is still open: PHP's lock puts a
  logout in another tab before the guard or after the answer. `LoggedOutChangesNothing`: a
  form sent while logged out changes nothing, even if a login overtakes it.
  `GetChangesNothing`: no handler looks at the request's method, and still no GET changes a
  product, because of the superglobals that the view models read.
- `LoginFollowsRegistration`: an accepted login has the sanitised password of a
  registration of its address. `RegisteredGetsIn`: who was shown the success page gets in
  with a password that sanitising keeps, unless the address was registered with
  another password and the table took it twice. `ChangedPasswordLocksOut`: with a unique
  address, a password that sanitising changes (one with `&` or `<`) locks its owner
  out, because the login compares it unsanitised.
- `KeptFromLaterUploads`: a stored file is safe from every upload that was
  sent after it was stored. `ButtonFollowsAnswer`: a page that never chose a file while an
  answer was due has the button its last answer asks for. Where answers overlap the code keeps
  nothing but that the last to arrive sets the button, so there is nothing to state.
- `MissingImagesExplained`: a product posted by such a page names a file that is there, under
  its sanitised name, or there is one of three reasons, none of which the page can know of: the
  form was sent before the upload's answer, the answer got lost, or the move failed and was
  answered as a success (`FileUploadFunction.php:165`). It never names one whose refusal was shown.
- `ListedImageIsOwn`: however late such a form is applied, its product then names that image as
  the database read it, and the stored file is the one that page uploaded, or one that replaced it
  in an overlapping upload, with the same three exceptions. `ImageFollowsChoice`: a
  product loses its image only to a form sent without a file, never to a refused or lost
  upload.
- `UntouchedTextRoundTrips`: a form nobody typed in, before which no other form came, changes
  the text by what printing and the UPDATE's quoting do to it and by nothing else. A text without
  quotation marks, apostrophes and backslashes stays; one with a backslash loses it.
- `WordsKept`, `LinesKept`, `WellNested`: no word is lost, doubled or moved; the two replacements leave one LF for each line end of any
  system, and after each paragraph the tags are nested as HTML allows, provided that each line of each list
  starts with its only star and no list ends in an empty line.
- `ClosestProportions`: of a picture, no other whole number of pixels is closer to its
  proportions, with either method; the page ends in an error exactly when something is at the path
  that has no side to divide by.
- `SlideTogether`, `PanelsFollowIcons`: however fast the button, the link and the icons are
  clicked, once the effects are over the panel, the shift of the page and the panel's content
  agree with the classes. `WideClosed`, `MenuReturns`: in a window that stays wide the menu
  comes back to the top bar and the panel closes, unless it was opened early.
- `OpenedFollowsHover`, `OnlyPointedOpen`: a submenu at rest is open exactly when its item has the
  class that the next press looks at; on a page that was never narrow, only the item
  under the mouse is open, however many handlers have piled up.

**Findings**, each with a run.

1. `old_id`: `sessionFunctions.php:122` says the id is regenerated "to invalidate the old
   one"; `session_regenerate_id()` without its argument keeps it, and as a login
   regenerates twice, the first of the two ids stays logged in.
2. `overlap`: the check for a taken name and the move are two steps, so two overlapping
   uploads of one name both succeed and the second replaces the first's image.
3. `password_length`: `RegisterVM.php:69` asks for at least 8 characters, but line 68
   measures the password after escaping: `<<<` has twelve.
4. `missing`: `ProductDAM.php:106-109` says of `writeProduct` "If the product is not in the
   database, the object is added". It looks at the id alone (line 115): with the id of a
   product that has been deleted, the UPDATE (line 132) matches no row, and nobody is told.
5. `first_paragraph`: `WebText.php:47-49` says of `getFirstParagraph()` that it returns "the first
   paragraph of the text with the HTML tags added". Line 54 cuts three characters, which is `<p>`
   but not `<ul>`, and takes for granted that there is a `</p>`: of a description that starts with a
   list it returns a `>` and pieces of the list's tags. Only `home.php` would show it, which no
   controller loads.

**Read off the code** while modelling it, as the modules have it, without a run of their own:

- `ProductDAM.php:135-143` puts the fields of the UPDATE between apostrophes as they are, where the
  INSERT binds them: a backslash gets lost and an apostrophe makes the statement fail (`Literal`,
  `UpdateFails`).
- `Image.php:31`: `file_exists()` holds of the directory too, which is the path of a product without
  an image name, so that its page ends in a division by null in `scaleWidth()` (`DivideByZero`).
- `validationFunctions.php:23` says a parameter is trimmed; line 31 trims it for the test only,
  so a telephone number with a blank before it is refused (`HPost`).
- `Image.php:50-54`: a strip more than twice as long as the box has a side of zero pixels.
  Line 57 compares with null where it means to assign it.
- `scripts.js:726`: the page has an icon for a search form and no form, so a click on it
  leaves the panel empty. A panel opened before the menu has moved into it is not closed when the
  window becomes wide (`early`). In the gap of the scroll bar's width the menu is in the panel
  and the style sheet hides the button that opens it.
- `mfn.menu.js:87` unbinds the event `hover`, which nothing was bound to: in a window that was
  once wide, a tap on the button of an item of the menu itself opens and closes it at once (`Tap`). The
  columns of the megamenu have no such handler.

## 4. Proofs

`AdminSessionProofs` proves `SessionInv` inductive and from it, for all browsers,
scripts, requests and bounds: `TypeCorrect`, `SessionsNeverMix` (`SessionsOwned`),
`GrantsFollowLogins` (`GrantFollowsLogin`) and `UpdatesNeverLost` (`NoLostUpdate`).
Ownership alone is not inductive. A fresh id must carry nothing, so
`FreshUnused` is needed; a script must hold an id exactly in the phases between opening and
giving it up, which is `PhasesOK`; and no two scripts may hold the same one
(`LockExclusive`). A login found in a session must have been recorded for the id's owner
(`LoginsOwned`), which is what turns the guard's test into the action property: what it
reads as `lastLogin` is a member of the client's `logins`. One lemma per action shows
that it preserves the invariant, `NextInv` puts them together.

The same module proves `StandingInvariant`, and from it `LogoutsHold` (`LogoutHolds`) and `LoginsHold`
(`LoginHolds`). These relate what a browser was last told to everything it has in flight, and
`StandingInv` says, request by request, what that can be. A script's phase follows from its request
(`PhaseAt`); it works on the id it came with, or on one of its own, which it makes for a client without a
cookie or in an accepted login (`OwnAt`); the jar still has the id the request came with, unless another
request overlapped it, and at worst one without a login unless another login did (`JarAt`); only the answer to an accepted login brings an id
with a login, and one that nothing overlapped brings the newest (`AnswerAt`, `NewestAt`). A browser that is out
then has a jar without a login and no login in flight (`OutAt`); one that is in has its newest login stored
under its jar's id, and nothing in flight that came with another id or would log it in or out (`InAt`). Lemmas
of the form `...Effect` state what one step does to its script and its browser.

`CatalogProofs` proves `CatalogInv` inductive and from it `TypeCorrect`, `DeletionsShow`
(`DeleterSeesGone`), `DeletedForever` (`NeverResurrected`) and `Refinement`
(`ImplementsStore`). The invariant adds to the types that every id in the table, in a
page, in a submission or in an answer has been handed out, because otherwise an insert
could meet an id that a running delete is about to report as gone. The refinement maps
every statement that writes to its step of the store, and every other step to `Ask`,
`Close` or a stutter.

`AccountsProofs` proves `AccountsInv` inductive and from it `TypeCorrect`,
`LoginsFollowRegistrations`, `RegisteredGetIn` and `ChangedPasswordsLockOut`. The three
properties speak of registrations, the code only of rows, so the invariant ties them
together: every row is what its registration makes of it (`UsersOK`), every confirmed
registration has its row (`ConfirmedOK`), and what a login found is a row of its
address, which it did find if one had been confirmed when it was sent (`FoundOK`).
`Address`, `Escape`, `Trim` and `Key` are arbitrary functions in the proofs.

`BrokerProofs` proves `BrokerInv`, which says what each program point knows of the request,
inductive and from it `TypeCorrect`, `RoutesAsDefined` and `GetsRunListedFormHandler`
(`GetRunsListedFormHandler`).

`ListingProofs` proves `UploadInv` inductive and from it `TypeCorrect`, `StoredAreValid`
(`OnlyValidStored`), `ButtonsFollowAnswers`, `MissingImagesAreExplained` (`MissingImagesExplained`) and `FilesKept`
(`KeptFromLaterUploads`). Two of the properties speak of a page that never chose a file while an answer was
due, so the invariant counts the answers due per page (`OneDue`), and it ties each stored file to
the upload that brought it, to that upload's checks and to what it knew when it was sent. A product
posted names its page's last choice, and that has not been refused with the page still there to hear
of it (`PostedUnrefused`): what is neither refused nor in one of the phases `Unheard` has been moved,
and a file that was moved stays.

It goes on to prove that every behaviour of `Listing` is one of `Upload` (`UploadsImplemented`), so the
theorems about uploads hold of it, and on top of `UploadInv` that each form on its way, and the last one
applied to each product, is one of the products posted (`FormsPosted`), and that an applied form left its image as the
database read it (`ImageFromForm`); from it
`ListedImagesAreOwn` (`ListedImageIsOwn`) and `UntouchedTextsRoundTrip` (`UntouchedTextRoundTrips`). `ImagesFollowChoice` (`ImageFollowsChoice`) needs that a form
names its page's last choice for as long as it is on its way (`FormsNameChoice`): a page that has been
left chooses nothing more, and a name once chosen stays.

`ShopProofs` proves that every behaviour of `Shop` is one of `AdminSession` and one of `Catalog`
(`PartsImplemented`), so the theorems about both hold of the composition. `ShopInv` adds the
coupling of the two: a script's phase in one module restricts its phase in the other, and a
protected statement is admitted only after the guard passed on the login that the session
still holds. From it follow `ChangesNeedLogins` and `GetsAreSafe`. `LoggedOutFormsAreSafe`
(`LoggedOutChangesNothing`) rests on `StandingInv` besides, which `PartsImplemented` carries over: a form sent
while its browser is logged out waits with an id whose session holds no login and gets none, since a
login that overtakes it goes on under a fresh id (`SentOutClean`).

`CsrfTokensProofs` proves `CsrfInv` inductive, which adds to `SessionInv` that ids and tokens not handed
out yet have no owner, that a script without a session has no token, and that a script's token is
never older than that of the session it has open; from it `TokensNeverMix` and `TokensNeverRevived`.
Every behaviour of `CsrfTokens` is one of `AdminSession` (`SessionsImplemented`), so `StandingInv` holds here
too, and with it `LatestFormsMatch` (`LatestFormMatches`): the token of a page that is being made is the one its
script will store (`PrintedAt`), and no request that a browser has in flight while it relies on its newest form
can change the token of the session its jar names (`LatestAt`).

`ViewProofs` proves the safety properties of the menu scripts and of the scaling. The three properties of
`SideSlide` speak of elements at rest, so they are not inductive: `SlideInv` says the same of what each element settles
as, which clicks change and the end of an effect does not (`ToldSettles`, `FinishSettles`), whatever the queues
hold. `MuffinInv` adds to its two properties that an effect leads to what the class says, and that a page that was
never narrow is wide. `ProportionsAreClosest` (`ClosestProportions`) follows from `RoundIsClosest`: no whole number times the
divisor is closer to the dividend than the one `Round` returns, and from `ImageInv`, which says of each kind of file what
the object has in its fields: a path that is set without sides is what divides by null.

The second half of `ViewProofs` is about `WebText`: `TextWordsKept`, `TextLinesKept`, `TextWellNested` and
`TextFirstParagraph` (`FirstParagraphTaken`, defined there: of a description that does not start with a list
`getFirstParagraph()` returns the first paragraph without its tags, so nothing but a leading list can break what finding 5 is about), for
descriptions of any length over any words. What the methods compute is stated with folds, so
the proofs are inductions over a text. The library's induction theorems take an operator, which the provers cannot
instantiate; `NatInd` and `SeqInd` state the same of a set, from the well-foundedness of `<` on the naturals.
With them follow the laws of folds (`FoldedEmpty`, `FoldedAppend`, `FoldedConcat`) for steps that are functions of a known type, and
each fold of the module is shown to be one (`WordsOfFolded`, `NestFolded`, `SplitFolded`, `UnixEndsFolded`). The lemmas then say what
one stage does to any text: `UnixEndsKeep` and `MacEndsKeep` count its line ends, `SplitKeepsWords` its words after
`explode()`, `TagParagraphKeeps` those of a tagged paragraph, and `TagNests` its nesting, by an induction over the list's prefixes
(`ItemsNest`).

The four properties do not say what the loop has still to do, so they are not inductive. `TextInv` does: the words
tagged so far and those of the paragraphs to come are the description's (`TaggedSoFar`), the paragraphs to come are some of the
text's, so `Regular` applies to each, and the first one is untouched or stands tagged in front of all else
(`FirstIsTagged`). Between the two replacements it counts every CR and LF as a line end, which holds only there.

The last theorems of `CatalogProofs`, `WritesShow` (`WriterSeesWrite`) and `PagesAgree`
(`PageAgrees`), need what the first query has seen: a script in its second
phase has seen what the table held then, and `raced` records whether that can have changed.

The proofs use only the assumptions stated in the modules (`BoundsAssumption`,
`NobodyAssumption`, `MethodsAssumption`, `CatalogAssumption`, `CategoriesAssumption`, `AccountsAssumption`, `UploadAssumption`,
`ListingAssumption`, `ShopAssumption`, `SideSlideAssumption`, `MuffinMenuAssumption`, `ImageScaleAssumption`,
`WebTextAssumption`), which the runs evaluate. That of the listings lets `Literal` be any partial
function that maps texts to texts and names to names and keeps the empty name. The last says that `Words`, the stretches of other text, are none of the characters
that the methods look for and none of the tags they write, which is what the module means by a word; a description
with HTML tags of its own is left out.

Only model-checked: `EveryRequestAnswered` and `MenuReturns`, since liveness under fairness is out of the
prover's reach.

## 5. Not modelled

`cis4270CommonIncludes.php` includes `FileUploadFunction.php`, whose line 27 calls
`upload_file('imageFile')`, so it runs at every request; it does nothing unless the request
carries a file of that name, which the site's pages post only to the script itself. Categories are never
written. Views, the page layout, `MessageVM` and the database connection have no
state that a property is about. The session checks on address and user agent
(`sessionFunctions.php:28-54`) are switched off by constants. `csrf_token_is_recent()` and
`destroy_csrf_token()` have no caller. The superseded `*Achtung` classes that no include list
names, the demonstrations in `htdocs` (`dbSecure.php`, `unsecureDatabaseAccess.php`,
`phpinfo.php`) and Apache's own files are not the shop's logic.

Of the repository's JavaScript, which is by far the larger part of its lines, nearly all
is a vendored theme: minified libraries, the Revolution slider in two versions, Elementor's front
end, jQuery UI, forms for mail (`contact.js`, `email.js`). No page of the application loads the
unminified ones of these. Of what a page does load, `scripts.js` sets up widgets that the page has no
elements for, besides `sideSlide()`, and `mfn.menu.js` is modelled; what the rest computes are
positions and sizes that only the browser's layout knows.

## 6. Plan

Done: `Routes`, `Broker`; `AdminSession`; `CatalogStore`, `Catalog`; `Upload`, `Listing`; `Accounts`;
`Shop`; `CsrfTokens`; `WebText`, `ImageScale`; `SideSlide`, `MuffinMenu`; proofs of every safety property
of the passing runs.

Left: the two liveness properties have no proof, and what section 5 lists has no model.
