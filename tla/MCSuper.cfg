SPECIFICATION SuperSpec
CONSTANTS
  NSObject = NSObject
  TestBaseClass = TestBaseClass
  A = A
  B = B
  FSClass1 = FSClass1
  foo = foo
  Foo = Foo
  bad = bad
  v1 = v1
  b1 = b1
  b2 = b2
  short = short
  long = long
  getFoo = getFoo
  setFoo = setFoo
  Class = {NSObject, A, B}
  ObjCClass = {NSObject}
  ObjCChain <- MCObjCChain
  MaxAnonymous = 0
  AnonymousName <- MCNoName
  Prop = {foo}
  IllFormed = {}
  LowerFirst <- MCLowerFirst
  UpperFirst <- MCUpperFirst
  Value = {v1}
  MaxList = 1
  Nil = Nil
  NSNull = NSNull
  Block = {b1, b2}
  Sel = {short, long, getFoo, setFoo}
  Long = {long}
  TooLong = {}
  Compiled <- MCCompiled
  Getter <- MCGetter
  Setter <- MCSetter
  NoWith = {}
  MaxDepth = 4
CONSTRAINT MCMessagesSmall
VIEW MCSuperView
INVARIANTS MethodsTypeOK RecordsAgree BlocksAreInherited AccessorsInstalled ClassPropertiesAreInherited SuperTypeOK SuperGoesUp
PROPERTIES OnlyDefinitionsChangeDispatch FirstSuperGoesUp
